---- MODULE Spec2Model ----
(***************************************************************************)
(* GUARDIAN agent orchestration pipeline: AgentRouter.route, the seven     *)
(* sub-agents' handle methods, LLMClient, and MainAgent.handle with its    *)
(* safety gate, two gathered stages, context merge and synthesis.          *)
(*                                                                         *)
(* Python values are modelled as tagged records: a JSON text returned by   *)
(* the provider is a record [t |-> ...]; a parsed JSON value is a record   *)
(* [j |-> ...]; a Python dict is a TLA+ record whose fields are its keys.  *)
(***************************************************************************)
EXTENDS Integers, Sequences, FiniteSets, TLC

\* ------------------------------------------------------------------ bounds
\* longest "experts" list the classification output carries
MaxExperts == 2
\* largest number of documents the retrieval gateway returns
MaxDocs == 2
\* longest trace handed to _synthesize_response on its own
MaxTrace == 3

\* ------------------------------------------------------------ Python values
None == [py |-> "None"]

\* dict.get(key, default)
Get(d, key, default) == IF key \in DOMAIN d THEN d[key] ELSE default

\* truth value of a dict-or-None (None and {} are falsy)
Truthy(d) == d # None /\ DOMAIN d # {}

EmptyDict == [k \in {} |-> None]

\* ------------------------------------------------------------- JSON values
JNum == [j |-> "number"]
JStr(s) == [j |-> "string", s |-> s]
JList(items) == [j |-> "list", items |-> items]
JObj(d) == [j |-> "object", d |-> d]

\* texts the provider can return
EmptyStr == [t |-> "empty"]
Garbage == [t |-> "garbage"]
JsonText(v) == [t |-> "json", v |-> v]

\* outcomes of gemini.model.generate_content
ProviderRaise == [kind |-> "raise"]
ProviderBlank == [kind |-> "blank"]
ProviderText(text) == [kind |-> "text", text |-> text]

ProviderOutcomes(texts) == {ProviderRaise, ProviderBlank} \cup {ProviderText(x) : x \in texts}

\* LLMClient.generate_text / analyze_image: the provider's error and a response
\* without text both become the empty string
generate_text_propagating(p) == IF p.kind = "text" THEN p.text ELSE IF p.kind = "raise" THEN [t |-> "raise"] ELSE EmptyStr

generate_text(p) == IF p.kind = "text" THEN p.text ELSE EmptyStr

\* json.loads(clean_text): TRUE when it raises JSONDecodeError
JSONDecodeError(text) == text.t # "json"

\* ------------------------------------------------------------- agent names
Agents == {"safety_agent", "rag_lookup_agent", "image_analysis_agent", "symptoms_agent", "triage_agent", "first_aid_agent", "pediatric_agent"}

\* the menu the router accepts from the classification output
Menu_withTriage == {"symptoms_agent", "first_aid_agent", "pediatric_agent", "rag_lookup_agent", "triage_agent"}

Menu == {"symptoms_agent", "first_aid_agent", "pediatric_agent", "rag_lookup_agent"}

Stage1Members == {"image_analysis_agent", "symptoms_agent", "rag_lookup_agent"}

\* list membership and "append if absent"
InList(x, list) == \E i \in 1..Len(list) : list[i] = x

AppendNew_always(list, x) == Append(list, x)

AppendNew(list, x) == IF InList(x, list) THEN list ELSE Append(list, x)

\* request.image_base64: absent, decodable, or present but not valid base64
ImageValues == {"none", "b64", "bad_b64"}

HasImage_always(img) == TRUE

HasImage(img) == img # "none"

\* ------------------------------------------------------------------ router
SeqsUpTo(S, n) == UNION {[1..k -> S] : k \in 0..n}

\* items an "experts" list can hold: menu names, names outside the menu, a non-string
ExpertNames == Menu \cup {"triage_agent", "image_analysis_agent", "unknown_agent"}

ExpertItems == {JStr(n) : n \in ExpertNames} \cup {JNum}

ExpertsValues == {JNum, JStr("symptoms_agent")} \cup {JList(q) : q \in SeqsUpTo(ExpertItems, MaxExperts)}

\* texts the classification call can produce
ClassificationTexts == {Garbage, JsonText(JNum), JsonText(JList(<<>>)), JsonText(JObj(EmptyDict))} \cup {JsonText(JObj([experts |-> e])) : e \in ExpertsValues}

\* for expert in experts: a list yields its items, a str its characters;
\* anything else raises TypeError
Iterable(v) == v.j \in {"list", "string"}

IterItems(v) == IF v.j = "list" THEN v.items ELSE [i \in 1..Len(v.s) |-> JStr("?")]

\* router.py:71, the test "expert in [the four menu names]"
Accepted_any(expert) == expert.j = "string"

Accepted(expert) == expert.j = "string" /\ expert.s \in Menu

\* router.py:70-73, the loop adding the experts named by the classification
RECURSIVE AddExperts(_, _)
AddExperts(selected, items) == IF items = <<>> THEN selected ELSE LET expert == Head(items) IN AddExperts(IF Accepted(expert) THEN AppendNew(selected, expert.s) ELSE selected, Tail(items))

\* router.py:75-78, symptoms bring triage along
ExpandTriage_skip(selected) == selected

ExpandTriage(selected) == IF InList("symptoms_agent", selected) THEN AppendNew(selected, "triage_agent") ELSE selected

\* router.py:80-83, first aid brings the document lookup along
ExpandRag_skip(selected) == selected

ExpandRag(selected) == IF InList("first_aid_agent", selected) THEN AppendNew(selected, "rag_lookup_agent") ELSE selected

\* router.py:75-83, the two expansion rules in the order of the code
Expand(selected) == ExpandRag(ExpandTriage(selected))

\* router.py:38-42, the deterministic scaffold
Scaffold_noSafety(img) == IF HasImage(img) THEN <<"image_analysis_agent">> ELSE <<>>

Scaffold(img) == IF HasImage(img) THEN <<"safety_agent", "image_analysis_agent">> ELSE <<"safety_agent">>

\* router.py:103, the fixed fallback selection
Fallback == <<"safety_agent", "rag_lookup_agent">>

\* router.py:100-103, the except Exception handler: it returns the fallback
OuterExcept_reraise == [selected |-> <<>>, path |-> "exception", raised |-> TRUE, logRaised |-> FALSE]

OuterExcept == [selected |-> Fallback, path |-> "exception", raised |-> FALSE, logRaised |-> FALSE]

\* router.py:85-88, the except json.JSONDecodeError handler
DecodeFallback_keep(selected) == selected

DecodeFallback(selected) == AppendNew(selected, "rag_lookup_agent")

\* AgentRouter.route: img is request.image_base64, p the provider's outcome for
\* the classification call, logOK whether log_routing_decision returns.
\* path records the branch taken: "classified", "decode_error" or "exception";
\* raised tells whether route itself raises.
route_decodeToFixed(img, p, logOK) == LET response_text == generate_text(p)
                                          logged(sel, path) == IF logOK THEN [selected |-> sel, path |-> path, raised |-> FALSE, logRaised |-> FALSE] ELSE [OuterExcept EXCEPT !.logRaised = TRUE]
                                          failed == OuterExcept
                                      IN  IF response_text.t = "raise" THEN failed
                                          ELSE IF JSONDecodeError(response_text) THEN logged(Fallback, "decode_error")
                                          ELSE LET data == response_text.v IN
                                               IF data.j # "object" THEN failed
                                               ELSE LET experts == Get(data.d, "experts", JList(<<>>)) IN
                                                    IF ~Iterable(experts) THEN failed
                                                    ELSE logged(Expand(AddExperts(Scaffold(img), IterItems(experts))), "classified")

route(img, p, logOK) == LET response_text == generate_text(p)
                            logged(sel, path) == IF logOK THEN [selected |-> sel, path |-> path, raised |-> FALSE, logRaised |-> FALSE] ELSE [OuterExcept EXCEPT !.logRaised = TRUE]
                            failed == OuterExcept
                        IN  IF response_text.t = "raise" THEN failed
                            ELSE IF JSONDecodeError(response_text) THEN logged(DecodeFallback(Scaffold(img)), "decode_error")
                            ELSE LET data == response_text.v IN
                                 IF data.j # "object" THEN failed
                                 ELSE LET experts == Get(data.d, "experts", JList(<<>>)) IN
                                      IF ~Iterable(experts) THEN failed
                                      ELSE logged(Expand(AddExperts(Scaffold(img), IterItems(experts))), "classified")

\* ------------------------------------------------------------------ agents
JBool(b) == [j |-> "bool", b |-> b]
JNull == [j |-> "null"]

\* AgentResponse (agent_base.py); score and diagnostics are not modelled
Response(name, ok, text, data, cites) == [agent_name |-> name, ok |-> ok, result_text |-> text, structured_data |-> data, citations |-> cites]

\* the response every agent's "except Exception" handler builds
ErrResponse(name, text) == Response(name, FALSE, text, None, None)

\* The try/except skeleton shared by the agents' handle methods.
\*   preExc : an exception is raised in the try block before the logger call
\*   log1   : the logger call of the try block returns
\*   postExc: an exception is raised after it (building the AgentResponse)
\*   log2   : the logger call of the except handler returns
\* handle raises only when the except handler's own logger call raises.
TryExcept_noHandler(name, preExc, postExc, resp, log1, log2, errText) == IF ~(preExc \/ ~log1 \/ postExc) THEN [raised |-> FALSE, resp |-> resp, logRaised |-> FALSE] ELSE [raised |-> TRUE, resp |-> None, logRaised |-> ~preExc /\ ~log1]

TryExcept(name, preExc, postExc, resp, log1, log2, errText) == LET log1Raised == ~preExc /\ ~log1 IN IF ~(preExc \/ ~log1 \/ postExc) THEN [raised |-> FALSE, resp |-> resp, logRaised |-> FALSE] ELSE IF log2 THEN [raised |-> FALSE, resp |-> ErrResponse(name, errText), logRaised |-> log1Raised] ELSE [raised |-> TRUE, resp |-> None, logRaised |-> TRUE]

\* data of a parsed text: the dict when the text is a JSON object, else None
\* (the first data.get(...) then raises AttributeError)
ParsedDict(text) == IF text.t = "json" /\ text.v.j = "object" THEN text.v.d ELSE None

\* ---- SafetyAgent
SafetyFallback_failOpen == [is_safe |-> JBool(TRUE), violation_type |-> JStr("error"), reason |-> JStr("Could not validate safety"), suggested_response |-> JStr("I cannot process this request at the moment.")]

SafetyFallback == [is_safe |-> JBool(FALSE), violation_type |-> JStr("error"), reason |-> JStr("Could not validate safety"), suggested_response |-> JStr("I cannot process this request at the moment.")]

SafetyDicts == {[is_safe |-> JBool(TRUE)], [is_safe |-> JBool(FALSE), suggested_response |-> JStr("Please contact a crisis line.")], [is_safe |-> JBool(FALSE), suggested_response |-> JStr("")], [is_safe |-> JBool(FALSE)], EmptyDict, [is_safe |-> JNull]}

SafetyTexts == {Garbage, JsonText(JNum)} \cup {JsonText(JObj(d)) : d \in SafetyDicts}

\* not data.get("is_safe")
NotSafe(data) == LET v == Get(data, "is_safe", JNull) IN ~(v.j = "bool" /\ v.b)

SafetyAgent_handle(p, log1, log2) == LET response_text == generate_text(p)
                                         data == IF JSONDecodeError(response_text) THEN SafetyFallback ELSE ParsedDict(response_text)
                                         preExc == response_text.t = "raise" \/ data = None
                                         is_safe == IF preExc THEN JNull ELSE Get(data, "is_safe", JBool(FALSE))
                                         postExc == is_safe.j # "bool"
                                         text == IF preExc THEN "" ELSE IF NotSafe(data) THEN Get(data, "suggested_response", JStr("")).s ELSE "Safe"
                                         resp == Response("safety_agent", is_safe.j = "bool" /\ is_safe.b, text, data, None)
                                     IN  TryExcept("safety_agent", preExc, postExc, resp, log1, log2, "Safety check failed. Cannot proceed.")

\* ---- SymptomsAgent
SymptomsFallback == [symptoms |-> JList(<<>>), duration |-> JNull, severity_indicators |-> JList(<<>>), red_flags |-> JBool(FALSE), urgency_score |-> JNum]

SymptomsDicts == {[symptoms |-> JList(<<JStr("fever")>>), red_flags |-> JBool(TRUE), urgency_score |-> JNum], EmptyDict, [symptoms |-> JNum]}

SymptomsTexts == {Garbage, JsonText(JNum)} \cup {JsonText(JObj(d)) : d \in SymptomsDicts}

SymptomsAgent_handle(p, log1, log2) == LET response_text == generate_text(p)
                                           data == IF JSONDecodeError(response_text) THEN SymptomsFallback ELSE ParsedDict(response_text)
                                           preExc == response_text.t = "raise" \/ data = None
                                           postExc == Get(data, "symptoms", JList(<<>>)).j # "list"
                                           resp == Response("symptoms_agent", TRUE, "Identified symptoms", data, None)
                                       IN  TryExcept("symptoms_agent", preExc, postExc, resp, log1, log2, "Error analyzing symptoms")

\* ---- TriageAgent
TriageFallback_red == [level |-> JStr("RED"), reasoning |-> JStr("Could not parse triage result."), action |-> JStr("Call 911"), steps |-> JList(<<>>)]

TriageFallback == [level |-> JStr("YELLOW"), reasoning |-> JStr("Could not parse triage result, defaulting to caution."), action |-> JStr("Consult a healthcare professional"), steps |-> JList(<<>>)]

Levels == {"RED", "YELLOW", "GREEN"}

TriageDicts == {[level |-> JStr(l), action |-> JStr("Call Doctor")] : l \in Levels \cup {"PURPLE"}} \cup {EmptyDict}

TriageTexts == {Garbage, JsonText(JNum)} \cup {JsonText(JObj(d)) : d \in TriageDicts}

\* triage_agent.py:57-58, score_map.get(data.get("level", "YELLOW"), 0.5);
\* scores are written in tenths: 10 is 1.0, 6 is 0.6, 5 is 0.5, 2 is 0.2
TriageScore_flat(data) == 5

TriageScore(data) == LET level == Get(data, "level", JStr("YELLOW")) IN IF level = JStr("RED") THEN 10 ELSE IF level = JStr("YELLOW") THEN 6 ELSE IF level = JStr("GREEN") THEN 2 ELSE 5

\* triage_agent.py:69-75, the response with its score
Scored(resp, score) == ("score" :> score) @@ resp

TriageAgent_handle(p, log1, log2) == LET response_text == generate_text(p)
                                         data == IF JSONDecodeError(response_text) THEN TriageFallback ELSE ParsedDict(response_text)
                                         preExc == response_text.t = "raise" \/ data = None
                                         resp == Scored(Response("triage_agent", TRUE, "Triage Level", data, None), TriageScore(data))
                                     IN  TryExcept("triage_agent", preExc, FALSE, resp, log1, log2, "Error in triage")

\* ---- FirstAidAgent
\* the fallback takes its steps from the non-blank lines of the raw text
FirstAidFallback(response_text) == [title |-> JStr("First Aid Instructions"), steps |-> JList(IF response_text.t = "garbage" THEN <<JStr("line")>> ELSE <<>>), warnings |-> JList(<<>>)]

FirstAidDicts == {[title |-> JStr("First Aid for burns"), steps |-> JList(<<JStr("1. Cool the burn")>>), warnings |-> JList(<<>>)], [steps |-> JNum]}

FirstAidTexts == {Garbage, JsonText(JNum)} \cup {JsonText(JObj(d)) : d \in FirstAidDicts}

FirstAidAgent_handle(p, log1, log2) == LET response_text == generate_text(p)
                                           data == IF JSONDecodeError(response_text) THEN FirstAidFallback(response_text) ELSE ParsedDict(response_text)
                                           preExc == response_text.t = "raise" \/ data = None \/ Get(data, "steps", JList(<<>>)).j # "list"
                                           resp == Response("first_aid_agent", TRUE, "First Aid", data, None)
                                       IN  TryExcept("first_aid_agent", preExc, FALSE, resp, log1, log2, "Error generating first aid")

\* ---- PediatricAgent
PediatricFallback == [age_detected |-> JNull, needs_age_clarification |-> JBool(TRUE), advice |-> JStr("Please specify the age of the child so I can provide accurate advice."), special_considerations |-> JList(<<>>)]

PediatricDicts == {[age_detected |-> JStr("2 years"), needs_age_clarification |-> JBool(FALSE), advice |-> JStr("Give fluids")], [advice |-> JList(<<>>)]}

PediatricTexts == {Garbage, JsonText(JNum)} \cup {JsonText(JObj(d)) : d \in PediatricDicts}

PediatricAgent_handle(p, log1, log2) == LET response_text == generate_text(p)
                                            data == IF JSONDecodeError(response_text) THEN PediatricFallback ELSE ParsedDict(response_text)
                                            preExc == response_text.t = "raise" \/ data = None
                                            advice == Get(data, "advice", JStr(""))
                                            postExc == advice.j # "string"
                                            resp == Response("pediatric_agent", TRUE, IF advice.j = "string" THEN advice.s ELSE "", data, None)
                                        IN  TryExcept("pediatric_agent", preExc, postExc, resp, log1, log2, "Error in pediatric agent")

\* ---- ImageAnalysisAgent
\* the fallback keeps the raw text as the description
ImageFallback(response_text) == [type |-> JStr("unknown"), is_medical |-> JBool(TRUE), description |-> JStr(IF response_text.t = "garbage" THEN "raw text" ELSE ""), severity_hint |-> JStr("unknown"), recommended_next_steps |-> JList(<<>>)]

ImageDicts == {[type |-> JStr("wound"), is_medical |-> JBool(TRUE), description |-> JStr("a small cut"), severity_hint |-> JStr("low")], [description |-> JList(<<>>)]}

ImageTexts == {Garbage, JsonText(JNum)} \cup {JsonText(JObj(d)) : d \in ImageDicts}

\* img is request.image_base64; without it the agent answers at once: no
\* capability call, no logger call
ImageAnalysisAgent_handle(img, p, log1, log2) == LET response_text == generate_text(p)
                                                     data == IF JSONDecodeError(response_text) THEN ImageFallback(response_text) ELSE ParsedDict(response_text)
                                                     preExc == img = "bad_b64" \/ response_text.t = "raise" \/ data = None
                                                     description == Get(data, "description", JStr(""))
                                                     postExc == description.j # "string"
                                                     resp == Response("image_analysis_agent", TRUE, IF description.j = "string" THEN description.s ELSE "", data, None)
                                                 IN  IF ~HasImage(img) THEN [raised |-> FALSE, resp |-> ErrResponse("image_analysis_agent", "No image provided."), logRaised |-> FALSE]
                                                     ELSE TryExcept("image_analysis_agent", preExc, postExc, resp, log1, log2, "Error analyzing image")

\* ---- RAGLookupAgent
Docs == {"A", "B"}

\* result lists of the vector store: up to MaxDocs distinct documents, in any order
DocLists == {q \in SeqsUpTo(Docs, MaxDocs) : \A i, k \in 1..Len(q) : i # k => q[i] # q[k]}

\* outcomes of the retrieval gateway: an error, a list of rows, or a list whose
\* row has a null content
RetrievalRaise == [kind |-> "raise"]
RetrievalBadRow == [kind |-> "bad_row"]
RetrievalRows(q) == [kind |-> "rows", rows |-> q]

RetrievalOutcomes == {RetrievalRaise, RetrievalBadRow} \cup {RetrievalRows(q) : q \in DocLists}

\* RAGService.search_similar: any error of the embedding call or of the vector
\* store is logged and an empty list is returned
search_similar_propagating(r) == r

search_similar(r) == IF r.kind = "raise" THEN RetrievalRows(<<>>) ELSE r

Citation(content) == [source |-> "Unknown", page |-> 0, snippet |-> content, score |-> 0]

RAGLookupAgent_handle(r, log1, log2) == LET results == search_similar(r)
                                            preExc == results.kind # "rows"
                                            chunks == IF preExc THEN <<>> ELSE results.rows
                                            citations == [i \in 1..Len(chunks) |-> Citation(chunks[i])]
                                            resp == Response("rag_lookup_agent", TRUE, "Found documents", [chunks |-> chunks], citations)
                                        IN  TryExcept("rag_lookup_agent", preExc, FALSE, resp, log1, log2, "Error retrieving documents")

\* ------------------------------------------------------------ orchestrator
VARIABLES image_base64, loggerFaulty, requests, frames, provider, issued, capability_calls, capability_output, finished_out_of_order, safety_output, context_update, rag_chunks, urgency, trace_pos, pc, classification, route_path, selected_agent_names, stage1_agents, stage2_agents, tasks, agent_trace, context, result, evaluations, capability_raised, context_seen, log_raised, raised_in

vars == <<image_base64, loggerFaulty, requests, frames, provider, issued, capability_calls, capability_output, finished_out_of_order, safety_output, context_update, rag_chunks, urgency, trace_pos, pc, classification, route_path, selected_agent_names, stage1_agents, stage2_agents, tasks, agent_trace, context, result, evaluations, capability_raised, context_seen, log_raised, raised_in>>

\* outcomes of one logger call: it returns (TRUE) or, with a faulty sink, raises
LogOutcomes == IF loggerFaulty THEN BOOLEAN ELSE {TRUE}

GenericRefusal == "I cannot process this request due to safety guidelines."

\* main_agent.py:63-68, the result returned when safety answers ok=false
EarlyReturn_rawText(safety_response, trace) == [final_text |-> safety_response.result_text, agent_trace |-> trace, citations |-> <<>>, urgency_level |-> "RED"]

EarlyReturn(safety_response, trace) == [final_text |-> IF safety_response.result_text # "" THEN safety_response.result_text ELSE GenericRefusal, agent_trace |-> trace, citations |-> <<>>, urgency_level |-> "RED"]

\* main_agent.py:84-91, the partition of the remaining names
Stage1Of_reversed(names) == LET q == SelectSeq(names, LAMBDA n : n \in Stage1Members) IN [i \in 1..Len(q) |-> q[Len(q) + 1 - i]]

Stage1Of(names) == SelectSeq(names, LAMBDA n : n \in Stage1Members)

Stage2Of(names) == SelectSeq(names, LAMBDA n : n \notin Stage1Members)

\* main_agent.py:94 and 125: one task per registered name of the stage
Tasks_twice(names) == LET registered == SelectSeq(names \o names, LAMBDA n : n \in Agents) IN [i \in 1..Len(registered) |-> [agent |-> registered[i], state |-> "idle", res |-> None]]

Tasks(names) == LET registered == SelectSeq(names, LAMBDA n : n \in Agents) IN [i \in 1..Len(registered) |-> [agent |-> registered[i], state |-> "idle", res |-> None]]

\* main_agent.py:71
RemoveSafety_keep(names) == names

RemoveSafety(names) == SelectSeq(names, LAMBDA n : n # "safety_agent")

\* trace entries: the safety entry (main_agent.py:55-59) has no data field
SafetyEntry(res) == [agent |-> "safety_agent", ok |-> res.ok, result |-> res.result_text]

StageEntry_okAlways(agent_name, res) == [agent |-> agent_name, ok |-> TRUE, result |-> res.result_text, data |-> res.structured_data]

StageEntry(agent_name, res) == [agent |-> agent_name, ok |-> res.ok, result |-> res.result_text, data |-> res.structured_data]

\* main_agent.py:110, `if res.structured_data:` a response's data is recorded
\* in context_update only when it is neither None nor empty
Recorded_always(res) == TRUE

Recorded(res) == Truthy(res.structured_data)

\* main_agent.py:101-115 and 128-138: the loop over the gathered results.
\* names is the stage's name list, results the gathered tasks, logs[i] whether
\* the logger call for a failed i-th task returns; acc accumulates the trace,
\* context_update, rag_chunks and whether a logger call raised.
RECURSIVE Collect(_, _, _, _, _)
Collect(names, results, logs, i, acc) == IF i > Len(results) \/ acc.raised THEN acc
                                         ELSE LET agent_name == names[i]
                                                  t == results[i]
                                                  res == t.res
                                                  withTrace == [acc EXCEPT !.trace = Append(@, StageEntry(agent_name, res))]
                                                  withCtx == IF Recorded(res) THEN [withTrace EXCEPT !.context_update = (agent_name :> res.structured_data) @@ @] ELSE withTrace
                                                  withRag == IF agent_name = "rag_lookup_agent" /\ Truthy(res.structured_data) THEN [withCtx EXCEPT !.rag_chunks = @ \o Get(res.structured_data, "chunks", <<>>)] ELSE withCtx
                                              IN  IF t.state = "returned" THEN Collect(names, results, logs, i + 1, withRag)
                                                  ELSE IF logs[i] THEN Collect(names, results, logs, i + 1, acc)
                                                  ELSE [acc EXCEPT !.raised = TRUE]

CollectInit(trace) == [trace |-> trace, context_update |-> EmptyDict, rag_chunks |-> <<>>, raised |-> FALSE]

\* main_agent.py:118-120: request.context, made a dict, takes the stage-1 data
UpdateContext_skip(ctx, update) == IF Truthy(ctx) THEN ctx ELSE EmptyDict

UpdateContext(ctx, update) == update @@ (IF Truthy(ctx) THEN ctx ELSE EmptyDict)

\* main_agent.py:121-122: a non-empty rag_chunks list is stored under its key
SetRagChunks_skip(ctx, chunks) == ctx

SetRagChunks(ctx, chunks) == IF chunks # <<>> THEN ("rag_chunks" :> chunks) @@ ctx ELSE ctx

\* main_agent.py:118-122
MergeContext_noChunks(ctx, update, chunks) == UpdateContext(ctx, update)

MergeContext(ctx, update, chunks) == SetRagChunks(UpdateContext(ctx, update), chunks)

\* main_agent.py:169, the entries the urgency is derived from:
\* name == "triage_agent" and data, with data = item.get("data", {})
IsTriage_anyAgent(item) == Truthy(Get(item, "data", EmptyDict))

IsTriage(item) == item.agent = "triage_agent" /\ Truthy(Get(item, "data", EmptyDict))

\* main_agent.py:171-172; u is the urgency so far
Escalate_overwrite(level, u) == IF level = JStr("RED") THEN "RED" ELSE IF level = JStr("YELLOW") THEN "YELLOW" ELSE u

Escalate(level, u) == IF level = JStr("RED") THEN "RED" ELSE IF level = JStr("YELLOW") /\ u # "RED" THEN "YELLOW" ELSE u

\* main_agent.py:158-172, the loop body for one trace item
UrgencyStep_copyLevel(item, u) == IF IsTriage(item) THEN Get(item.data, "level", JStr("GREEN")).s ELSE u

UrgencyStep(item, u) == IF IsTriage(item) THEN Escalate(Get(item.data, "level", JStr("GREEN")), u) ELSE u

\* MainAgent._synthesize_response, lines 155-172: the urgency derived from the trace
RECURSIVE Urgency(_, _)
Urgency(trace, u) == IF trace = <<>> THEN u ELSE Urgency(Tail(trace), UrgencyStep(Head(trace), u))

SynthesisTexts == {Garbage}

\* the final text: the stripped text of the provider, "" on its failure
FinalText(text) == IF text.t = "empty" THEN "" ELSE "synthesized answer"

\* main_agent.py:197-202, the returned dict; u is the urgency the loop ended with
_synthesize_response_citing(trace, text, u) == LET rag == {i \in 1..Len(trace) : trace[i].agent = "rag_lookup_agent" /\ Truthy(Get(trace[i], "data", EmptyDict))}
                                                   chunks == IF rag = {} THEN <<>> ELSE trace[CHOOSE i \in rag : TRUE].data.chunks
                                               IN  [final_text |-> FinalText(text), agent_trace |-> trace, citations |-> [k \in 1..Len(chunks) |-> Citation(chunks[k])], urgency_level |-> u]

_synthesize_response(trace, text, u) == [final_text |-> FinalText(text), agent_trace |-> trace, citations |-> <<>>, urgency_level |-> u]

NoAgents == [a \in Agents |-> 0]

\* the callers of the capability: the agents, the router and the orchestrator
Callers == Agents \cup {"router", "main_agent"}

NoCalls == [c \in Callers |-> 0]

\* llm_client.py:51-54, one invocation of the provider on behalf of caller
RecordCall_none(calls, caller) == calls

RecordCall(calls, caller) == [calls EXCEPT ![caller] = @ + 1]

InitRequest == /\ image_base64 \in ImageValues
               /\ pc = "routing"
               /\ classification = None
               /\ route_path = "none"
               /\ selected_agent_names = <<>>
               /\ stage1_agents = <<>>
               /\ stage2_agents = <<>>
               /\ tasks = <<>>
               /\ agent_trace = <<>>
               /\ context = None
               /\ result = None
               /\ evaluations = NoAgents
               /\ capability_raised = {}
               /\ context_seen = [a \in Agents |-> None]
               /\ log_raised = FALSE
               /\ raised_in = "none"
               /\ safety_output = None
               /\ urgency = "GREEN"
               /\ requests = <<>>
               /\ frames = <<>>
               /\ provider = <<>>
               /\ issued = {}
               /\ capability_calls = NoCalls
               /\ capability_output = None
               /\ finished_out_of_order = FALSE
               /\ trace_pos = 1
               /\ context_update = EmptyDict
               /\ rag_chunks = <<>>

\* the logging sink works
Init == InitRequest /\ loggerFaulty = FALSE

\* every outcome one call of an agent's handle can have, with capRaised telling
\* whether the provider (or the retrieval gateway) raised inside the call
WithCap(o, capRaised) == [raised |-> o.raised, resp |-> o.resp, logRaised |-> o.logRaised, capRaised |-> capRaised]

\* what the capability (for RagLookup: the retrieval gateway) can do in one call
CapabilityOutcomes(name) == CASE name = "safety_agent" -> ProviderOutcomes(SafetyTexts)
                              [] name = "symptoms_agent" -> ProviderOutcomes(SymptomsTexts)
                              [] name = "triage_agent" -> ProviderOutcomes(TriageTexts)
                              [] name = "first_aid_agent" -> ProviderOutcomes(FirstAidTexts)
                              [] name = "pediatric_agent" -> ProviderOutcomes(PediatricTexts)
                              [] name = "image_analysis_agent" -> ProviderOutcomes(ImageTexts)
                              [] name = "rag_lookup_agent" -> RetrievalOutcomes

\* self.agents[name].handle(request) when the capability does out
HandleWith(name, img, out, l1, l2) == CASE name = "safety_agent" -> SafetyAgent_handle(out, l1, l2)
                                        [] name = "symptoms_agent" -> SymptomsAgent_handle(out, l1, l2)
                                        [] name = "triage_agent" -> TriageAgent_handle(out, l1, l2)
                                        [] name = "first_aid_agent" -> FirstAidAgent_handle(out, l1, l2)
                                        [] name = "pediatric_agent" -> PediatricAgent_handle(out, l1, l2)
                                        [] name = "image_analysis_agent" -> ImageAnalysisAgent_handle(img, out, l1, l2)
                                        [] name = "rag_lookup_agent" -> RAGLookupAgent_handle(out, l1, l2)

\* the number of capability calls one handle makes: one on every path, except
\* that ImageAnalysis makes none without image data or when decoding fails
CapabilityCalls_always(name, img) == 1

CapabilityCalls(name, img) == IF name = "image_analysis_agent" /\ img # "b64" THEN 0 ELSE 1

HandleOutcomes(name, img) == {WithCap(HandleWith(name, img, out, l1, l2), CapabilityCalls(name, img) = 1 /\ out.kind = "raise") : out \in CapabilityOutcomes(name), l1 \in LogOutcomes, l2 \in LogOutcomes}

\* main_agent.py:50, router.route(request)
Route == /\ pc = "routing"
         /\ \E p \in ProviderOutcomes(ClassificationTexts), logOK \in LogOutcomes :
               LET r == route(image_base64, p, logOK) IN
               /\ classification' = p
               /\ capability_calls' = RecordCall(capability_calls, "router")
               /\ route_path' = r.path
               /\ selected_agent_names' = r.selected
               /\ log_raised' = (log_raised \/ r.logRaised)
               /\ pc' = IF r.raised THEN "raised" ELSE "safety_gate"
               /\ raised_in' = IF r.raised THEN "route" ELSE raised_in
         /\ UNCHANGED <<image_base64, loggerFaulty, requests, frames, provider, issued, capability_output, finished_out_of_order, safety_output, context_update, rag_chunks, urgency, trace_pos, stage1_agents, stage2_agents, tasks, agent_trace, context, result, evaluations, capability_raised, context_seen>>

\* main_agent.py:84-94: partition the remaining names and launch stage 1
EnterStage1(names) == /\ selected_agent_names' = names
                      /\ stage1_agents' = Stage1Of(names)
                      /\ stage2_agents' = Stage2Of(names)
                      /\ tasks' = Tasks(Stage1Of(names))
                      /\ pc' = "stage1"

\* main_agent.py:53-54: the safety agent is called when the selection names it
SafetyGate == /\ pc = "safety_gate"
              /\ classification' = None
              /\ IF InList("safety_agent", selected_agent_names)
                 THEN /\ pc' = "safety_running"
                      /\ evaluations' = [evaluations EXCEPT !["safety_agent"] = @ + 1]
                      /\ context_seen' = [context_seen EXCEPT !["safety_agent"] = context]
                      /\ UNCHANGED <<selected_agent_names, stage1_agents, stage2_agents, tasks>>
                 ELSE /\ EnterStage1(selected_agent_names)
                      /\ UNCHANGED <<evaluations, context_seen>>
              /\ UNCHANGED <<image_base64, loggerFaulty, requests, frames, provider, issued, capability_calls, capability_output, finished_out_of_order, safety_output, context_update, rag_chunks, urgency, trace_pos, route_path, agent_trace, context, result, capability_raised, log_raised, raised_in>>

\* main_agent.py:61, the gate stops the run when Safety's response is not ok
GateStops_never(resp) == FALSE

GateStops(resp) == ~resp.ok

\* main_agent.py:54-71: the safety response is appended to the trace; ok=false
\* returns at once, otherwise safety is removed and the stages begin.
\* safety_output records what the provider did in the safety call.
SafetyReturn == /\ pc = "safety_running"
                /\ \E p \in CapabilityOutcomes("safety_agent"), l1 \in LogOutcomes, l2 \in LogOutcomes :
                      LET o == WithCap(HandleWith("safety_agent", image_base64, p, l1, l2), p.kind = "raise") IN
                      /\ safety_output' = p
                      /\ capability_calls' = RecordCall(capability_calls, "safety_agent")
                      /\ log_raised' = (log_raised \/ o.logRaised)
                      /\ capability_raised' = IF o.capRaised THEN capability_raised \cup {"safety_agent"} ELSE capability_raised
                      /\ raised_in' = IF o.raised THEN "safety_agent" ELSE raised_in
                      /\ IF o.raised
                         THEN /\ pc' = "raised"
                              /\ UNCHANGED <<selected_agent_names, stage1_agents, stage2_agents, tasks, agent_trace, result>>
                         ELSE /\ agent_trace' = Append(agent_trace, SafetyEntry(o.resp))
                              /\ IF GateStops(o.resp)
                                 THEN /\ result' = EarlyReturn(o.resp, agent_trace')
                                      /\ pc' = "done"
                                      /\ UNCHANGED <<selected_agent_names, stage1_agents, stage2_agents, tasks>>
                                 ELSE /\ EnterStage1(RemoveSafety(selected_agent_names))
                                      /\ UNCHANGED result
                /\ UNCHANGED <<image_base64, loggerFaulty, requests, frames, provider, issued, capability_output, finished_out_of_order, context_update, rag_chunks, urgency, trace_pos, classification, route_path, context, evaluations, context_seen>>

\* asyncio.gather: the i-th task of the running stage starts; it reads the request
StartTask(i) == /\ pc \in {"stage1", "stage2"}
                /\ i \in DOMAIN tasks
                /\ tasks[i].state = "idle"
                /\ tasks' = [tasks EXCEPT ![i].state = "running"]
                /\ evaluations' = [evaluations EXCEPT ![tasks[i].agent] = @ + 1]
                /\ context_seen' = [context_seen EXCEPT ![tasks[i].agent] = context]
                /\ UNCHANGED <<image_base64, loggerFaulty, requests, frames, provider, issued, capability_calls, capability_output, finished_out_of_order, safety_output, context_update, rag_chunks, urgency, trace_pos, pc, classification, route_path, selected_agent_names, stage1_agents, stage2_agents, agent_trace, context, result, capability_raised, log_raised, raised_in>>

\* the i-th task's handle returns a response or raises; finished_out_of_order
\* notes that it did so before a task listed earlier in the stage
FinishTask(i) == /\ pc \in {"stage1", "stage2"}
                 /\ i \in DOMAIN tasks
                 /\ tasks[i].state = "running"
                 /\ \E o \in HandleOutcomes(tasks[i].agent, image_base64) :
                       /\ tasks' = [tasks EXCEPT ![i] = [agent |-> @.agent, state |-> IF o.raised THEN "raised" ELSE "returned", res |-> o.resp]]
                       /\ finished_out_of_order' = (finished_out_of_order \/ \E k \in 1..(i - 1) : tasks[k].state \in {"idle", "running"})
                       /\ log_raised' = (log_raised \/ o.logRaised)
                       /\ capability_raised' = IF o.capRaised THEN capability_raised \cup {tasks[i].agent} ELSE capability_raised
                 /\ capability_calls' = [capability_calls EXCEPT ![tasks[i].agent] = @ + CapabilityCalls(tasks[i].agent, image_base64)]
                 /\ UNCHANGED <<image_base64, loggerFaulty, requests, frames, provider, issued, capability_output, safety_output, context_update, rag_chunks, urgency, trace_pos, pc, classification, route_path, selected_agent_names, stage1_agents, stage2_agents, agent_trace, context, result, evaluations, context_seen, raised_in>>

\* await asyncio.gather(...): handle resumes when every task of the stage is done
AllFinished_noWait == TRUE

AllFinished == \A i \in DOMAIN tasks : tasks[i].state \in {"returned", "raised"}

\* main_agent.py:95-115: gather returns; the stage-1 results are collected into
\* the trace, context_update and rag_chunks
CollectStage1 == /\ pc = "stage1"
                 /\ AllFinished
                 /\ \E logs \in [DOMAIN tasks -> LogOutcomes] :
                       LET c == Collect(stage1_agents, tasks, logs, 1, CollectInit(agent_trace)) IN
                       /\ log_raised' = (log_raised \/ c.raised)
                       /\ raised_in' = IF c.raised THEN "stage1" ELSE raised_in
                       /\ IF c.raised
                          THEN /\ pc' = "raised"
                               /\ UNCHANGED <<agent_trace, context_update, rag_chunks>>
                          ELSE /\ agent_trace' = c.trace
                               /\ context_update' = c.context_update
                               /\ rag_chunks' = c.rag_chunks
                               /\ pc' = "merge"
                 /\ UNCHANGED <<image_base64, loggerFaulty, requests, frames, provider, issued, capability_calls, capability_output, finished_out_of_order, safety_output, urgency, trace_pos, classification, route_path, selected_agent_names, stage1_agents, stage2_agents, tasks, context, result, evaluations, capability_raised, context_seen>>

\* main_agent.py:117-125: the request context is updated with the stage-1 data
\* and stage 2 is launched
Merge == /\ pc = "merge"
         /\ context' = MergeContext(context, context_update, rag_chunks)
         /\ tasks' = Tasks(stage2_agents)
         /\ finished_out_of_order' = FALSE
         /\ pc' = "stage2"
         /\ UNCHANGED <<image_base64, loggerFaulty, requests, frames, provider, issued, capability_calls, capability_output, safety_output, context_update, rag_chunks, urgency, trace_pos, classification, route_path, selected_agent_names, stage1_agents, stage2_agents, agent_trace, result, evaluations, capability_raised, context_seen, log_raised, raised_in>>

\* main_agent.py:126-138: gather returns; the stage-2 results are collected
CollectStage2 == /\ pc = "stage2"
                 /\ AllFinished
                 /\ \E logs \in [DOMAIN tasks -> LogOutcomes] :
                       LET c == Collect(stage2_agents, tasks, logs, 1, CollectInit(agent_trace)) IN
                       /\ log_raised' = (log_raised \/ c.raised)
                       /\ finished_out_of_order' = FALSE
                       /\ raised_in' = IF c.raised THEN "stage2" ELSE raised_in
                       /\ IF c.raised
                          THEN /\ pc' = "raised"
                               /\ UNCHANGED agent_trace
                          ELSE /\ agent_trace' = c.trace
                               /\ pc' = "synthesize"
                 /\ UNCHANGED <<image_base64, loggerFaulty, requests, frames, provider, issued, capability_calls, capability_output, safety_output, context_update, rag_chunks, urgency, trace_pos, classification, route_path, selected_agent_names, stage1_agents, stage2_agents, tasks, context, result, evaluations, capability_raised, context_seen>>

\* main_agent.py:157-172: the synthesis loop handles the trace item at trace_pos
SynthesizeItem == /\ pc = "synthesize"
                  /\ trace_pos <= Len(agent_trace)
                  /\ urgency' = UrgencyStep(agent_trace[trace_pos], urgency)
                  /\ trace_pos' = trace_pos + 1
                  /\ UNCHANGED <<image_base64, loggerFaulty, requests, frames, provider, issued, capability_calls, capability_output, finished_out_of_order, safety_output, context_update, rag_chunks, pc, classification, route_path, selected_agent_names, stage1_agents, stage2_agents, tasks, agent_trace, context, result, evaluations, capability_raised, context_seen, log_raised, raised_in>>

\* main_agent.py:174-202 and 141-146: after the loop the synthesis call, the
\* closing logger call, the return
Synthesize == /\ pc = "synthesize"
              /\ trace_pos > Len(agent_trace)
              /\ \E p \in ProviderOutcomes(SynthesisTexts), logOK \in LogOutcomes :
                    LET final_text == generate_text(p) IN
                    /\ log_raised' = (log_raised \/ (final_text.t # "raise" /\ ~logOK))
                    /\ capability_raised' = IF p.kind = "raise" THEN capability_raised \cup {"main_agent"} ELSE capability_raised
                    /\ capability_calls' = RecordCall(capability_calls, "main_agent")
                    /\ raised_in' = IF final_text.t = "raise" THEN "synthesize" ELSE IF ~logOK THEN "main_agent_log" ELSE raised_in
                    /\ IF final_text.t = "raise" \/ ~logOK
                       THEN /\ pc' = "raised"
                            /\ UNCHANGED result
                       ELSE /\ result' = _synthesize_response(agent_trace, final_text, urgency)
                            /\ pc' = "done"
              /\ UNCHANGED <<image_base64, loggerFaulty, requests, frames, provider, issued, capability_output, finished_out_of_order, safety_output, context_update, rag_chunks, urgency, trace_pos, classification, route_path, selected_agent_names, stage1_agents, stage2_agents, tasks, agent_trace, context, evaluations, context_seen>>

Next == \/ Route
        \/ SafetyGate
        \/ SafetyReturn
        \/ \E i \in 1..Cardinality(Agents) : StartTask(i)
        \/ \E i \in 1..Cardinality(Agents) : FinishTask(i)
        \/ CollectStage1
        \/ Merge
        \/ CollectStage2
        \/ SynthesizeItem
        \/ Synthesize

Spec == Init /\ [][Next]_vars

\* the same program with a logging sink whose calls may raise
InitFaultyLogger == InitRequest /\ loggerFaulty = TRUE

SpecFaultyLogger == InitFaultyLogger /\ [][Next]_vars

\* ---- _synthesize_response on its own, for any trace
\* trace items as MainAgent.handle builds them: Triage entries of every level,
\* with empty data and without data, entries of another agent (one of them
\* carrying a level of its own), and the safety entry, which has no data field
TriageItems == {StageEntry("triage_agent", Response("triage_agent", TRUE, "Triage Level", d, None)) : d \in TriageDicts \cup {TriageFallback}} \cup {StageEntry("triage_agent", ErrResponse("triage_agent", "Error in triage"))}

OtherItems == {StageEntry("symptoms_agent", Response("symptoms_agent", TRUE, "Identified symptoms", d, None)) : d \in {SymptomsFallback, [level |-> JStr("RED")]}} \cup {StageEntry("symptoms_agent", ErrResponse("symptoms_agent", "Error analyzing symptoms")), SafetyEntry(Response("safety_agent", TRUE, "Safe", [is_safe |-> JBool(TRUE)], None))}

TraceItems == TriageItems \cup OtherItems

\* _synthesize_response is entered with an arbitrary trace of at most MaxTrace items
InitSynthesis == /\ agent_trace \in SeqsUpTo(TraceItems, MaxTrace)
                 /\ pc = "synthesize"
                 /\ urgency = "GREEN"
                 /\ requests = <<>>
                 /\ frames = <<>>
                 /\ provider = <<>>
                 /\ issued = {}
                 /\ capability_calls = NoCalls
                 /\ capability_output = None
                 /\ finished_out_of_order = FALSE
                 /\ trace_pos = 1
                 /\ loggerFaulty = FALSE
                 /\ image_base64 = "none"
                 /\ classification = None
                 /\ route_path = "none"
                 /\ selected_agent_names = <<>>
                 /\ stage1_agents = <<>>
                 /\ stage2_agents = <<>>
                 /\ tasks = <<>>
                 /\ context = None
                 /\ result = None
                 /\ evaluations = NoAgents
                 /\ capability_raised = {}
                 /\ context_seen = [a \in Agents |-> None]
                 /\ log_raised = FALSE
                 /\ raised_in = "none"
                 /\ safety_output = None
                 /\ context_update = EmptyDict
                 /\ rag_chunks = <<>>

NextSynthesis == \/ SynthesizeItem
                 \/ Synthesize

SpecSynthesis == InitSynthesis /\ [][NextSynthesis]_vars

\* ---- one agent's handle on its own, for any request and any capability outcome
\* the agent under call is the one task; capability_output is what the
\* capability will do when the agent calls it
InitAgent == /\ image_base64 \in ImageValues
             /\ \E a \in Agents : /\ tasks = Tasks(<<a>>)
                                  /\ capability_output \in CapabilityOutcomes(a)
             /\ pc = "agent_call"
             /\ capability_calls = NoCalls
             /\ finished_out_of_order = FALSE
             /\ urgency = "GREEN"
             /\ requests = <<>>
             /\ frames = <<>>
             /\ provider = <<>>
             /\ issued = {}
             /\ trace_pos = 1
             /\ loggerFaulty = FALSE
             /\ agent_trace = <<>>
             /\ classification = None
             /\ route_path = "none"
             /\ selected_agent_names = <<>>
             /\ stage1_agents = <<>>
             /\ stage2_agents = <<>>
             /\ context = None
             /\ result = None
             /\ evaluations = NoAgents
             /\ capability_raised = {}
             /\ context_seen = [a \in Agents |-> None]
             /\ log_raised = FALSE
             /\ raised_in = "none"
             /\ safety_output = None
             /\ context_update = EmptyDict
             /\ rag_chunks = <<>>

\* await agent.handle(request): the agent answers, or raises
HandleAgent == /\ pc = "agent_call"
               /\ \E l1 \in LogOutcomes, l2 \in LogOutcomes :
                     LET o == HandleWith(tasks[1].agent, image_base64, capability_output, l1, l2) IN
                     /\ tasks' = [tasks EXCEPT ![1] = [agent |-> @.agent, state |-> IF o.raised THEN "raised" ELSE "returned", res |-> o.resp]]
                     /\ log_raised' = (log_raised \/ o.logRaised)
               /\ evaluations' = [evaluations EXCEPT ![tasks[1].agent] = @ + 1]
               /\ capability_calls' = [capability_calls EXCEPT ![tasks[1].agent] = @ + CapabilityCalls(tasks[1].agent, image_base64)]
               /\ pc' = "agent_done"
               /\ UNCHANGED <<image_base64, loggerFaulty, requests, frames, provider, issued, capability_output, finished_out_of_order, safety_output, context_update, rag_chunks, urgency, trace_pos, classification, route_path, selected_agent_names, stage1_agents, stage2_agents, agent_trace, context, result, capability_raised, context_seen, raised_in>>

NextAgent == HandleAgent

SpecAgent == InitAgent /\ [][NextAgent]_vars

\* ---- two calls of main_agent.handle in flight on the one MainAgent instance
\* (main_agent.py:204), each with the AgentRequest its HTTP request built
\* (api/agents/route.py:27-34).  requests[r] is the request object of run r,
\* frames[r] the local variables of its handle call, provider[r] what the
\* capability and the retrieval gateway answer to the calls made for run r,
\* issued the identifiers uuid4 has returned so far.
Runs == {1, 2}

Uuids == {"u1", "u2", "u3"}

\* uuid.uuid4(): a random 122-bit identifier, taken as one never returned before
uuid4_any(used) == Uuids

uuid4(used) == Uuids \ used

\* main_agent.py:42-44
SetRequestId(metadata, request_id) == ("request_id" :> request_id) @@ (IF Truthy(metadata) THEN metadata ELSE EmptyDict)

\* main_agent.py:47, agent_trace = [] is a local of the call: run r appends to
\* the list of its own frame
TraceOwner_instance(r) == 1

TraceOwner(r) == r

\* api/agents/route.py:27-32: the request carries the message and the image only
NewRequest(img) == [image_base64 |-> img, context |-> None, metadata |-> None]

NewFrame == [pc |-> "start", request_id |-> None, selected_agent_names |-> <<>>, stage1_agents |-> <<>>, stage2_agents |-> <<>>, tasks |-> <<>>, agent_trace |-> <<>>, context_update |-> EmptyDict, rag_chunks |-> <<>>, result |-> None]

\* answers of the provider and of the vector store for one run
AnswersAll == [a \in Agents |-> CASE a = "safety_agent" -> ProviderText(JsonText(JObj([is_safe |-> JBool(TRUE)])))
                                  [] a = "symptoms_agent" -> ProviderText(JsonText(JObj([symptoms |-> JList(<<JStr("fever")>>), red_flags |-> JBool(TRUE), urgency_score |-> JNum])))
                                  [] a = "triage_agent" -> ProviderText(JsonText(JObj([level |-> JStr("RED"), action |-> JStr("Call Doctor")])))
                                  [] a = "first_aid_agent" -> ProviderText(JsonText(JObj([title |-> JStr("First Aid for burns"), steps |-> JList(<<JStr("1. Cool the burn")>>), warnings |-> JList(<<>>)])))
                                  [] a = "pediatric_agent" -> ProviderText(JsonText(JObj([advice |-> JList(<<>>)])))
                                  [] a = "image_analysis_agent" -> ProviderText(JsonText(JObj([type |-> JStr("wound"), is_medical |-> JBool(TRUE), description |-> JStr("a small cut"), severity_hint |-> JStr("low")])))
                                  [] a = "rag_lookup_agent" -> RetrievalRows(<<"A", "B">>)]

AnswersFew == [AnswersAll EXCEPT !["symptoms_agent"] = ProviderRaise, !["triage_agent"] = ProviderText(Garbage), !["first_aid_agent"] = ProviderBlank, !["image_analysis_agent"] = ProviderText(Garbage), !["rag_lookup_agent"] = RetrievalRows(<<"B">>)]

AnswersUnsafe == [AnswersAll EXCEPT !["safety_agent"] = ProviderText(JsonText(JObj([is_safe |-> JBool(FALSE), suggested_response |-> JStr("Please contact a crisis line.")])))]

ProviderScripts == {[classification |-> c, out |-> o, synthesis |-> ProviderText(Garbage)] : c \in {ProviderRaise, ProviderText(JsonText(JObj([experts |-> JList(<<JStr("symptoms_agent"), JStr("first_aid_agent")>>)])))}, o \in {AnswersAll, AnswersFew, AnswersUnsafe}}

InitRuns == /\ requests \in [Runs -> {NewRequest(img) : img \in {"none", "b64"}}]
            /\ frames = [r \in Runs |-> NewFrame]
            /\ provider \in [Runs -> ProviderScripts]
            /\ \A r \in Runs : /\ provider[r].classification \in ProviderOutcomes(ClassificationTexts)
                               /\ provider[r].synthesis \in ProviderOutcomes(SynthesisTexts)
                               /\ \A a \in Agents : provider[r].out[a] \in CapabilityOutcomes(a)
            /\ issued = {}
            /\ image_base64 = "none"
            /\ pc = "runs"
            /\ capability_calls = NoCalls
            /\ capability_output = None
            /\ finished_out_of_order = FALSE
            /\ trace_pos = 1
            /\ loggerFaulty = FALSE
            /\ agent_trace = <<>>
            /\ classification = None
            /\ route_path = "none"
            /\ selected_agent_names = <<>>
            /\ stage1_agents = <<>>
            /\ stage2_agents = <<>>
            /\ tasks = <<>>
            /\ context = None
            /\ result = None
            /\ evaluations = NoAgents
            /\ capability_raised = {}
            /\ context_seen = [a \in Agents |-> None]
            /\ log_raised = FALSE
            /\ raised_in = "none"
            /\ safety_output = None
            /\ context_update = EmptyDict
            /\ rag_chunks = <<>>
            /\ urgency = "GREEN"

\* main_agent.py:41-47: the call of run r starts
BeginRun(r) == /\ frames[r].pc = "start"
               /\ \E request_id \in uuid4(issued) :
                     /\ issued' = issued \cup {request_id}
                     /\ requests' = [requests EXCEPT ![r].metadata = SetRequestId(@, request_id)]
                     /\ frames' = [[frames EXCEPT ![r].request_id = request_id, ![r].pc = "routing"] EXCEPT ![TraceOwner(r)].agent_trace = <<>>]
               /\ UNCHANGED <<provider, image_base64, loggerFaulty, capability_calls, capability_output, finished_out_of_order, safety_output, context_update, rag_chunks, urgency, trace_pos, pc, classification, route_path, selected_agent_names, stage1_agents, stage2_agents, tasks, agent_trace, context, result, evaluations, capability_raised, context_seen, log_raised, raised_in>>

\* main_agent.py:50
RunRoute(r) == /\ frames[r].pc = "routing"
               /\ frames' = [frames EXCEPT ![r].selected_agent_names = route(requests[r].image_base64, provider[r].classification, TRUE).selected, ![r].pc = "safety_gate"]
               /\ UNCHANGED <<requests, provider, issued, image_base64, loggerFaulty, capability_calls, capability_output, finished_out_of_order, safety_output, context_update, rag_chunks, urgency, trace_pos, pc, classification, route_path, selected_agent_names, stage1_agents, stage2_agents, tasks, agent_trace, context, result, evaluations, capability_raised, context_seen, log_raised, raised_in>>

\* main_agent.py:84-94: the frame after the partition and the launch of stage 1
EnteredStage1(frame, names) == [frame EXCEPT !.selected_agent_names = names, !.stage1_agents = Stage1Of(names), !.stage2_agents = Stage2Of(names), !.tasks = Tasks(Stage1Of(names)), !.pc = "stage1"]

\* main_agent.py:53-71
RunSafety(r) == /\ frames[r].pc = "safety_gate"
                /\ IF InList("safety_agent", frames[r].selected_agent_names)
                   THEN LET safety_response == HandleWith("safety_agent", requests[r].image_base64, provider[r].out["safety_agent"], TRUE, TRUE).resp
                            trace == Append(frames[TraceOwner(r)].agent_trace, SafetyEntry(safety_response))
                            appended == [frames EXCEPT ![TraceOwner(r)].agent_trace = trace]
                        IN  IF GateStops(safety_response)
                            THEN frames' = [appended EXCEPT ![r].result = EarlyReturn(safety_response, trace), ![r].pc = "done"]
                            ELSE frames' = [appended EXCEPT ![r] = EnteredStage1(@, RemoveSafety(frames[r].selected_agent_names))]
                   ELSE frames' = [frames EXCEPT ![r] = EnteredStage1(@, frames[r].selected_agent_names)]
                /\ UNCHANGED <<requests, provider, issued, image_base64, loggerFaulty, capability_calls, capability_output, finished_out_of_order, safety_output, context_update, rag_chunks, urgency, trace_pos, pc, classification, route_path, selected_agent_names, stage1_agents, stage2_agents, tasks, agent_trace, context, result, evaluations, capability_raised, context_seen, log_raised, raised_in>>

\* main_agent.py:94 and 125: the task's agent handles the request of its run
RunHandle(task, request, script) == LET o == HandleWith(task.agent, request.image_base64, script.out[task.agent], TRUE, TRUE)
                                    IN  [agent |-> task.agent, state |-> IF o.raised THEN "raised" ELSE "returned", res |-> o.resp]

\* one task of the stage run r is in completes
RunTask(r, i) == /\ frames[r].pc \in {"stage1", "stage2"}
                 /\ i \in DOMAIN frames[r].tasks
                 /\ frames[r].tasks[i].state = "idle"
                 /\ frames' = [frames EXCEPT ![r].tasks[i] = RunHandle(@, requests[r], provider[r])]
                 /\ UNCHANGED <<requests, provider, issued, image_base64, loggerFaulty, capability_calls, capability_output, finished_out_of_order, safety_output, context_update, rag_chunks, urgency, trace_pos, pc, classification, route_path, selected_agent_names, stage1_agents, stage2_agents, tasks, agent_trace, context, result, evaluations, capability_raised, context_seen, log_raised, raised_in>>

\* every task of the frame's stage is done
Gathered(frame) == \A i \in DOMAIN frame.tasks : frame.tasks[i].state \in {"returned", "raised"}

\* the logger returns on every call
LogsReturn(results) == [i \in DOMAIN results |-> TRUE]

\* main_agent.py:95-125: gather returns, the stage-1 results are collected, the
\* request's context is updated and stage 2 is launched
RunCollectStage1(r) == /\ frames[r].pc = "stage1"
                       /\ Gathered(frames[r])
                       /\ LET c == Collect(frames[r].stage1_agents, frames[r].tasks, LogsReturn(frames[r].tasks), 1, CollectInit(frames[TraceOwner(r)].agent_trace)) IN
                          /\ frames' = [[frames EXCEPT ![TraceOwner(r)].agent_trace = c.trace] EXCEPT ![r].context_update = c.context_update, ![r].rag_chunks = c.rag_chunks, ![r].tasks = Tasks(frames[r].stage2_agents), ![r].pc = "stage2"]
                          /\ requests' = [requests EXCEPT ![r].context = MergeContext(@, c.context_update, c.rag_chunks)]
                       /\ UNCHANGED <<provider, issued, image_base64, loggerFaulty, capability_calls, capability_output, finished_out_of_order, safety_output, context_update, rag_chunks, urgency, trace_pos, pc, classification, route_path, selected_agent_names, stage1_agents, stage2_agents, tasks, agent_trace, context, result, evaluations, capability_raised, context_seen, log_raised, raised_in>>

\* main_agent.py:126-138: the stage-2 results go into the trace, nowhere else
RunCollectStage2_feedForward(r) == /\ frames[r].pc = "stage2"
                       /\ Gathered(frames[r])
                       /\ LET c == Collect(frames[r].stage2_agents, frames[r].tasks, LogsReturn(frames[r].tasks), 1, CollectInit(frames[TraceOwner(r)].agent_trace)) IN
                          /\ frames' = [[frames EXCEPT ![TraceOwner(r)].agent_trace = c.trace] EXCEPT ![r].pc = "synthesize"]
                          /\ requests' = [requests EXCEPT ![r].context = MergeContext(@, c.context_update, c.rag_chunks)]
                       /\ UNCHANGED <<provider, issued, image_base64, loggerFaulty, capability_calls, capability_output, finished_out_of_order, safety_output, context_update, rag_chunks, urgency, trace_pos, pc, classification, route_path, selected_agent_names, stage1_agents, stage2_agents, tasks, agent_trace, context, result, evaluations, capability_raised, context_seen, log_raised, raised_in>>

RunCollectStage2(r) == /\ frames[r].pc = "stage2"
                       /\ Gathered(frames[r])
                       /\ LET c == Collect(frames[r].stage2_agents, frames[r].tasks, LogsReturn(frames[r].tasks), 1, CollectInit(frames[TraceOwner(r)].agent_trace)) IN
                          frames' = [[frames EXCEPT ![TraceOwner(r)].agent_trace = c.trace] EXCEPT ![r].pc = "synthesize"]
                       /\ UNCHANGED <<requests, provider, issued, image_base64, loggerFaulty, capability_calls, capability_output, finished_out_of_order, safety_output, context_update, rag_chunks, urgency, trace_pos, pc, classification, route_path, selected_agent_names, stage1_agents, stage2_agents, tasks, agent_trace, context, result, evaluations, capability_raised, context_seen, log_raised, raised_in>>

\* main_agent.py:141-146 and 148-202
RunSynthesize(r) == /\ frames[r].pc = "synthesize"
                    /\ LET trace == frames[TraceOwner(r)].agent_trace IN
                       frames' = [frames EXCEPT ![r].result = _synthesize_response(trace, generate_text(provider[r].synthesis), Urgency(trace, "GREEN")), ![r].pc = "done"]
                    /\ UNCHANGED <<requests, provider, issued, image_base64, loggerFaulty, capability_calls, capability_output, finished_out_of_order, safety_output, context_update, rag_chunks, urgency, trace_pos, pc, classification, route_path, selected_agent_names, stage1_agents, stage2_agents, tasks, agent_trace, context, result, evaluations, capability_raised, context_seen, log_raised, raised_in>>

NextRuns == \E r \in Runs : \/ BeginRun(r)
                            \/ RunRoute(r)
                            \/ RunSafety(r)
                            \/ \E i \in 1..Cardinality(Agents) : RunTask(r, i)
                            \/ RunCollectStage1(r)
                            \/ RunCollectStage2(r)
                            \/ RunSynthesize(r)

SpecRuns == InitRuns /\ [][NextRuns]_vars

\* every capability and retrieval call returns or fails, and the event loop
\* resumes a coroutine that can go on: handle does not wait forever while a
\* step of it can be taken
SpecRunsFair == InitRuns /\ [][NextRuns]_vars /\ WF_vars(NextRuns)

\* ------------------------------------------------------------------ claims
HasSafetyEntry(trace) == \E i \in 1..Len(trace) : trace[i].agent = "safety_agent"

SafetyRefused == agent_trace # <<>> /\ agent_trace[1].agent = "safety_agent" /\ ~agent_trace[1].ok

\* C1: whenever the safety response has ok=false, handle has returned a result
\* whose trace is the safety entry alone, whose urgency is RED, whose citations
\* are empty and whose final text is the safety result text, or the generic
\* refusal when that text is empty.
C1_SafetyRefusalResult == SafetyRefused => /\ pc = "done"
                                           /\ agent_trace = <<[agent |-> "safety_agent", ok |-> FALSE, result |-> agent_trace[1].result]>>
                                           /\ result.agent_trace = agent_trace
                                           /\ result.urgency_level = "RED"
                                           /\ result.citations = <<>>
                                           /\ result.final_text = (IF agent_trace[1].result = "" THEN GenericRefusal ELSE agent_trace[1].result)

\* a run refused by safety with an empty result text, answered by the generic refusal
C1_Witness == SafetyRefused /\ pc = "done" /\ agent_trace[1].result = "" /\ result.final_text = GenericRefusal

\* C2: the selection returned by route contains Safety, and a Safety entry of
\* the returned trace is the first entry of that trace.
C2_SafetySelectedAndFirst == /\ pc = "safety_gate" => InList("safety_agent", selected_agent_names)
                             /\ pc = "done" => \A i \in 1..Len(result.agent_trace) : result.agent_trace[i].agent = "safety_agent" => i = 1

\* a run that went through both stages and returned a trace led by the safety entry
C2_Witness == pc = "done" /\ Len(result.agent_trace) >= 3 /\ result.agent_trace[1].agent = "safety_agent"

\* C3: in a run where Safety is selected it is evaluated exactly once, and its
\* evaluation has completed before any other agent starts.
C3_SafetyOnceAndFirst == /\ evaluations["safety_agent"] <= 1
                         /\ pc \in {"safety_running", "stage1", "stage2", "synthesize", "done"} => evaluations["safety_agent"] = 1
                         /\ \A a \in Agents \ {"safety_agent"} : evaluations[a] > 0 => /\ evaluations["safety_agent"] = 1
                                                                                      /\ pc \notin {"safety_gate", "safety_running"}
                                                                                      /\ HasSafetyEntry(agent_trace)

\* a run in which three other agents have started after the one safety evaluation
C3_Witness == evaluations["safety_agent"] = 1 /\ Cardinality({a \in Agents \ {"safety_agent"} : evaluations[a] = 1}) >= 3

RouteReturned == pc = "safety_gate"

\* C4: for every request that carries image data the selection returned by
\* route contains ImageAnalysis, whatever the classification call produced.
C4_ImageAlwaysSelected == (RouteReturned /\ HasImage(image_base64)) => InList("image_analysis_agent", selected_agent_names)

\* the classification failed to parse or routing hit an exception
ClassificationError == RouteReturned /\ route_path \in {"decode_error", "exception"}

C6_RouteTotalNonEmpty == /\ raised_in # "route"
                         /\ pc # "routing" => (route_path # "none" /\ (RouteReturned => selected_agent_names # <<>>))

\* route came back through its except handler, with a selection
C6_Witness == RouteReturned /\ route_path = "exception" /\ classification.kind = "text" /\ Len(selected_agent_names) = 2

HasEntry(trace, name) == \E i \in 1..Len(trace) : trace[i].agent = name

\* every name of the stage-2 list was run once and has its trace entry
Stage2AllRan == \A k \in 1..Len(stage2_agents) : evaluations[stage2_agents[k]] = 1 /\ HasEntry(agent_trace, stage2_agents[k])

\* the stage-1 agents whose capability call raised in this run
FailedStage1 == capability_raised \cap Stage1Members

\* what a stage-1 agent answers when its capability call raised
DegradedData(name) == CASE name = "symptoms_agent" -> SymptomsFallback
                        [] name = "image_analysis_agent" -> ImageFallback(EmptyStr)
                        [] name = "rag_lookup_agent" -> [chunks |-> <<>>]

\* C7 as stated: when a stage-1 agent's capability call raised, every selected
\* stage-2 agent still runs and the returned trace has no entry for that agent.
C7_FailedStage1HasNoEntry == pc = "done" => \A a \in FailedStage1 : Stage2AllRan /\ ~HasEntry(result.agent_trace, a)

\* C7 as amended: when a stage-1 agent's capability call raised, every selected
\* stage-2 agent still runs and the returned trace does contain that agent's
\* entry, with ok=true and the agent's fallback data.
C7_FailedStage1KeepsEntry == /\ pc \in {"stage2", "synthesize", "done"} => \A a \in FailedStage1 : \E i \in 1..Len(agent_trace) : agent_trace[i] = [agent |-> a, ok |-> TRUE, result |-> agent_trace[i].result, data |-> DegradedData(a)]
                             /\ pc \in {"synthesize", "done"} => \A a \in FailedStage1 : Stage2AllRan
                             /\ pc = "done" => \A a \in FailedStage1 : result.agent_trace = agent_trace

\* the symptoms capability call raised and two stage-2 agents ran afterwards
C7_Witness == pc = "done" /\ "symptoms_agent" \in FailedStage1 /\ Len(stage2_agents) >= 2 /\ Stage2AllRan

\* C8: when the handle of a stage-1 or stage-2 agent raises, the agent gets no
\* trace entry, the other agents of the stage get theirs, and the run goes on
\* to synthesis and returns a result.
C8_RaisedAgentIsolated == (\E i \in DOMAIN tasks : tasks[i].state = "raised") => (pc # "raised" /\ (pc \in {"synthesize", "done"} => \A i \in DOMAIN tasks : (HasEntry(agent_trace, tasks[i].agent) <=> tasks[i].state = "returned")))

\* C9: handle returns a result with the four fields and never raises, whatever
\* the capability, the retrieval gateway and the agents do.
C9_HandleNeverRaises == /\ pc # "raised"
                        /\ raised_in = "none"
                        /\ pc = "done" => DOMAIN result = {"final_text", "agent_trace", "citations", "urgency_level"}

\* a run whose synthesis capability call raised and that still returned
C9_Witness == pc = "done" /\ "main_agent" \in capability_raised /\ result.final_text = "" /\ Len(result.agent_trace) >= 2

\* C10: every agent's handle returns a response and never raises; a failure
\* inside the agent becomes ok=false with an explanation, or fallback data.
C10_AgentsAlwaysRespond == /\ raised_in # "safety_agent"
                           /\ pc \in {"stage1", "stage2", "synthesize", "done"} => HasEntry(agent_trace, "safety_agent")
                           /\ \A i \in DOMAIN tasks : tasks[i].state # "raised"
                           /\ \A i \in DOMAIN tasks : tasks[i].state = "returned" => (LET res == tasks[i].res IN res.agent_name = tasks[i].agent /\ (IF res.ok THEN res.structured_data # None ELSE res.result_text # "" /\ res.structured_data = None))

\* one agent of a stage converted an exception to ok=false, another fell back
C10_Witness == \E i, k \in DOMAIN tasks : /\ tasks[i].state = "returned" /\ ~tasks[i].res.ok
                                          /\ tasks[k].state = "returned" /\ tasks[k].res.structured_data = SymptomsFallback

\* C11: a raising logging sink makes no difference to a run: the selection route
\* returns is the one it returns for the same classification outcome with a
\* working logger, and handle does not raise.
C11_LoggerMakesNoDifference == /\ RouteReturned => selected_agent_names = route(image_base64, classification, TRUE).selected
                               /\ pc # "raised"

\* the provider returned parseable output whose is_safe is true
SafeOutput(p) == p.kind = "text" /\ p.text.t = "json" /\ p.text.v.j = "object" /\ Get(p.text.v.d, "is_safe", JNull) = JBool(TRUE)

\* C12: Safety answers ok=true only when the capability returned parseable
\* output whose is_safe is true; on a capability error, on unparseable output
\* and on output without is_safe it answers ok=false, and the run stops at the
\* gate: the result is returned with the safety entry alone and no other agent
\* has started.
C12_SafetyFailsClosed == safety_output # None => /\ agent_trace[1].agent = "safety_agent"
                                                 /\ agent_trace[1].ok <=> SafeOutput(safety_output)
                                                 /\ ~SafeOutput(safety_output) => /\ pc = "done"
                                                                                  /\ result.agent_trace = agent_trace
                                                                                  /\ Len(agent_trace) = 1
                                                                                  /\ \A a \in Agents \ {"safety_agent"} : evaluations[a] = 0

\* the capability returned a JSON object without is_safe and the run stopped
C12_Witness == safety_output = ProviderText(JsonText(JObj(EmptyDict))) /\ pc = "done" /\ ~agent_trace[1].ok /\ Len(result.agent_trace) = 1

\* number of occurrences of x in list
Count(x, list) == Cardinality({i \in 1..Len(list) : list[i] = x})

\* the classification outcome that names the given experts
Classified(items) == ProviderText(JsonText(JObj([experts |-> JList(items)])))

\* C13: whenever Symptoms is in the selection returned by route, Triage is in
\* it exactly once, also when the classification names Symptoms twice.
C13_SymptomsBringTriageOnce == RouteReturned => /\ InList("symptoms_agent", selected_agent_names) => Count("triage_agent", selected_agent_names) = 1
                                                /\ Count("symptoms_agent", selected_agent_names) <= 1
                                                /\ Count("triage_agent", selected_agent_names) <= 1

\* the classification named Symptoms twice; Symptoms and Triage are selected once each
C13_Witness == RouteReturned /\ classification = Classified(<<JStr("symptoms_agent"), JStr("symptoms_agent")>>) /\ Count("symptoms_agent", selected_agent_names) = 1 /\ Count("triage_agent", selected_agent_names) = 1

\* C14: whenever FirstAid is in the selection returned by route, RagLookup is
\* in it too.
C14_FirstAidBringsRag == (RouteReturned /\ InList("first_aid_agent", selected_agent_names)) => InList("rag_lookup_agent", selected_agent_names)

\* the classification named FirstAid alone and RagLookup was added after it
C14_Witness == RouteReturned /\ classification = Classified(<<JStr("first_aid_agent")>>) /\ selected_agent_names = <<"safety_agent", "first_aid_agent", "rag_lookup_agent">>

\* the classification output is a JSON object whose experts value is a list
ClassifiedList == classification.kind = "text" /\ classification.text.t = "json" /\ classification.text.v.j = "object" /\ Get(classification.text.v.d, "experts", JList(<<>>)).j = "list"

ClassifiedItems == Get(classification.text.v.d, "experts", JList(<<>>)).items

\* the menu names among the items, and the items that are no menu name
NamedInMenu == {ClassifiedItems[i].s : i \in {k \in 1..Len(ClassifiedItems) : ClassifiedItems[k].j = "string" /\ ClassifiedItems[k].s \in Menu}}

NamedOutsideMenu == \E i \in 1..Len(ClassifiedItems) : ClassifiedItems[i].j # "string" \/ ClassifiedItems[i].s \notin Menu

\* the names the selection may hold for the named menu experts: the scaffold,
\* the experts themselves and what the two expansion rules add for them
AllowedSelection == {"safety_agent"} \cup (IF HasImage(image_base64) THEN {"image_analysis_agent"} ELSE {}) \cup NamedInMenu \cup (IF "symptoms_agent" \in NamedInMenu THEN {"triage_agent"} ELSE {}) \cup (IF "first_aid_agent" \in NamedInMenu THEN {"rag_lookup_agent"} ELSE {})

\* C15: every name of the selection returned by route is one of the seven
\* registered agents; when the classification output lists experts, items
\* outside the menu raise no error (route ends on its normal path) and add
\* nothing to the selection, while every menu name of the same list is selected.
C15_UnknownExpertsDiscarded == RouteReturned => /\ \A i \in 1..Len(selected_agent_names) : selected_agent_names[i] \in Agents
                                                /\ ClassifiedList => /\ route_path = "classified"
                                                                     /\ \A n \in NamedInMenu : InList(n, selected_agent_names)
                                                                     /\ \A i \in 1..Len(selected_agent_names) : selected_agent_names[i] \in AllowedSelection

\* an unknown name before a valid one: the valid one alone is selected
C15_Witness == RouteReturned /\ ClassifiedList /\ ClassifiedItems = <<JStr("unknown_agent"), JStr("pediatric_agent")>> /\ NamedOutsideMenu /\ image_base64 = "none" /\ selected_agent_names = <<"safety_agent", "pediatric_agent">>

\* every task of the running stage has returned or raised, one task per name
StageOver(names) == Len(tasks) = Len(names) /\ \A i \in DOMAIN tasks : tasks[i].agent = names[i] /\ tasks[i].state \in {"returned", "raised"}

\* agent a starts in this step
Starts(a) == evaluations'[a] > evaluations[a]

\* C16: a run moves through routing, the safety gate, stage 1, the merge,
\* stage 2, synthesis and done in that order, the only other move being from
\* the safety gate to done when Safety answers ok=false; stage 1 is left only
\* when each of its agents has returned or raised, stage-2 agents start in
\* stage 2 only, and synthesis is entered only when each stage-2 agent has
\* returned or raised.
C16_Step == /\ pc' # pc => \/ (pc = "routing" /\ pc' = "safety_gate")
                           \/ (pc = "safety_gate" /\ pc' = "safety_running")
                           \/ (pc = "safety_running" /\ pc' = "stage1" /\ agent_trace'[1].ok)
                           \/ (pc = "safety_running" /\ pc' = "done" /\ ~agent_trace'[1].ok)
                           \/ (pc = "stage1" /\ pc' = "merge" /\ StageOver(stage1_agents))
                           \/ (pc = "merge" /\ pc' = "stage2")
                           \/ (pc = "stage2" /\ pc' = "synthesize" /\ StageOver(stage2_agents))
                           \/ (pc = "synthesize" /\ pc' = "done")
            /\ Starts("safety_agent") => pc = "safety_gate"
            /\ \A a \in Stage1Members : Starts(a) => pc = "stage1"
            /\ \A a \in Agents \ (Stage1Members \cup {"safety_agent"}) : Starts(a) => pc = "stage2"

C16_PhaseOrder == [][C16_Step]_vars

\* a finished run with two agents in each stage, all of them in the trace
C16_Witness == pc = "done" /\ Len(stage1_agents) >= 2 /\ Len(stage2_agents) >= 2 /\ Len(result.agent_trace) = 1 + Len(stage1_agents) + Len(stage2_agents)

\* the context keys the merge step writes
MergeKeys == Stage1Members \cup {"rag_chunks"}

\* agent a has started, so context_seen[a] is the context it read
Started(a) == evaluations[a] > 0

\* the context read by a holds every entry the merge step wrote: the data of
\* each stage-1 trace entry whose data is non-empty, and the collected chunks
SeesMerged(a) == /\ \A i \in 1..Len(agent_trace) : (agent_trace[i].agent \in Stage1Members /\ Truthy(agent_trace[i].data)) => (agent_trace[i].agent \in DOMAIN context_seen[a] /\ context_seen[a][agent_trace[i].agent] = agent_trace[i].data)
                 /\ rag_chunks # <<>> => ("rag_chunks" \in DOMAIN context_seen[a] /\ context_seen[a]["rag_chunks"] = rag_chunks)

\* C17: the entries the merge step writes into the context are read by every
\* stage-2 agent of the run, and no stage-1 agent (nor Safety) reads a context
\* that holds an output of stage 1.
C17_MergeVisibility == /\ \A a \in Stage1Members \cup {"safety_agent"} : Started(a) => DOMAIN context_seen[a] \cap MergeKeys = {}
                       /\ \A a \in Agents \ (Stage1Members \cup {"safety_agent"}) : Started(a) => SeesMerged(a)

\* FirstAid and Triage both started and read the Symptoms data and the chunks,
\* which Symptoms and RagLookup had not seen
C17_Witness == /\ Started("first_aid_agent") /\ Started("triage_agent")
               /\ {"symptoms_agent", "rag_lookup_agent", "rag_chunks"} \subseteq DOMAIN context_seen["first_aid_agent"]
               /\ context_seen["triage_agent"] = context_seen["first_aid_agent"]
               /\ context_seen["symptoms_agent"] = None /\ context_seen["rag_lookup_agent"] = None

\* the RagLookup entry of the trace when it carries a non-empty chunk list
RagEntries == {i \in 1..Len(agent_trace) : agent_trace[i].agent = "rag_lookup_agent" /\ Truthy(agent_trace[i].data) /\ agent_trace[i].data.chunks # <<>>}

\* C18: once stage 1 has completed with a RagLookup response whose chunks are
\* the non-empty list L, context.rag_chunks is L, in the same order, from the
\* moment stage 2 is launched, before any stage-2 agent has started.
C18_RagChunksMerged == pc \in {"stage2", "synthesize", "done"} => \A i \in RagEntries : "rag_chunks" \in DOMAIN context /\ context["rag_chunks"] = agent_trace[i].data.chunks

\* stage 2 is launched, none of its agents has started, and the two chunks are
\* in the context in the order the lookup returned them
C18_Witness == /\ pc = "stage2" /\ tasks # <<>> /\ \A i \in DOMAIN tasks : tasks[i].state = "idle"
               /\ RagEntries # {}
               /\ "rag_chunks" \in DOMAIN context /\ context["rag_chunks"] = <<"B", "A">>

\* the trace has a Triage entry whose level is RED
HasRedTriage(trace) == \E i \in 1..Len(trace) : trace[i].agent = "triage_agent" /\ "data" \in DOMAIN trace[i] /\ trace[i].data # None /\ "level" \in DOMAIN trace[i].data /\ trace[i].data.level = JStr("RED")

\* synthesis went over the whole trace and returned
SynthesisReturned == pc = "done" /\ trace_pos > Len(agent_trace)

\* C19: synthesis returns urgency RED when the trace has a Triage entry whose
\* level is RED, whatever the other entries are, and GREEN when the trace has
\* no Triage entry.
C19_UrgencyFromTriage == SynthesisReturned => /\ HasRedTriage(result.agent_trace) => result.urgency_level = "RED"
                                              /\ ~HasEntry(result.agent_trace, "triage_agent") => result.urgency_level = "GREEN"

\* a RED Triage entry followed by a YELLOW one and by another agent's entry
C19_Witness == /\ SynthesisReturned /\ Len(result.agent_trace) = 3 /\ result.urgency_level = "RED"
               /\ result.agent_trace[1].agent = "triage_agent" /\ result.agent_trace[1].data = [level |-> JStr("RED"), action |-> JStr("Call Doctor")]
               /\ result.agent_trace[2].agent = "triage_agent" /\ result.agent_trace[2].data = [level |-> JStr("YELLOW"), action |-> JStr("Call Doctor")]
               /\ result.agent_trace[3].agent = "symptoms_agent"

\* C20: within the synthesis pass the urgency never goes down: once RED it
\* stays RED over every later trace item, and from YELLOW it never returns to
\* GREEN.
C20_Step == /\ urgency = "RED" => urgency' = "RED"
            /\ urgency = "YELLOW" => urgency' \in {"YELLOW", "RED"}

C20_UrgencyMonotonic == [][C20_Step]_vars

\* the pass reached RED on the first item and has gone over a later YELLOW
\* Triage item without lowering it
C20_Witness == /\ pc = "synthesize" /\ trace_pos = 3 /\ urgency = "RED"
               /\ agent_trace[1].agent = "triage_agent" /\ agent_trace[1].data = [level |-> JStr("RED"), action |-> JStr("Call Doctor")]
               /\ agent_trace[2].agent = "triage_agent" /\ agent_trace[2].data = [level |-> JStr("YELLOW"), action |-> JStr("Call Doctor")]

\* the stage an agent belongs to: Safety before both stages
StageNo(a) == IF a = "safety_agent" THEN 0 ELSE IF a \in Stage1Members THEN 1 ELSE 2

Position(x, list) == CHOOSE i \in 1..Len(list) : list[i] = x

TraceNames == [i \in 1..Len(agent_trace) |-> agent_trace[i].agent]

\* C21: the trace lists the Safety entry, then the stage-1 entries, then the
\* stage-2 entries, and within a stage the entries stand in the order the names
\* have in the router's selection, in whatever order the stage's agents
\* finished; once both stages are collected every selected agent has its entry.
C21_TraceInSelectionOrder == /\ \A i, k \in 1..Len(agent_trace) : i < k => \/ StageNo(agent_trace[i].agent) < StageNo(agent_trace[k].agent)
                                                                           \/ /\ StageNo(agent_trace[i].agent) = StageNo(agent_trace[k].agent)
                                                                              /\ agent_trace[i].agent # agent_trace[k].agent
                                                                              /\ Position(agent_trace[i].agent, selected_agent_names) < Position(agent_trace[k].agent, selected_agent_names)
                             /\ (pc \in {"synthesize", "done"} /\ ~SafetyRefused) => TraceNames = <<"safety_agent">> \o stage1_agents \o stage2_agents

\* stage 1 has been collected after its agents finished out of order, and its
\* entries stand in the order of the stage's list
C21_Witness == pc = "merge" /\ finished_out_of_order /\ Len(stage1_agents) >= 2 /\ TraceNames = <<"safety_agent">> \o stage1_agents

\* the trace entries, after the Safety entry, that record an ok=false response
FailedEntries == {i \in 2..Len(agent_trace) : ~agent_trace[i].ok}

\* every selected agent was run once and has its entry
AllSelectedRan == \A k \in 1..Len(selected_agent_names) : evaluations[selected_agent_names[k]] = 1 /\ HasEntry(agent_trace, selected_agent_names[k])

\* C22: a response with ok=false from an agent other than Safety does not stop
\* the run: once its stage is collected the trace holds its entry with ok=false,
\* handle does not raise, and the run ends with every selected agent executed
\* and with the synthesized result carrying the whole trace.
C22_FailedAgentTolerated == /\ \A i \in DOMAIN tasks : (pc \in {"merge", "synthesize", "done"} /\ tasks[i].state = "returned" /\ ~tasks[i].res.ok) => \E k \in FailedEntries : agent_trace[k] = [agent |-> tasks[i].agent, ok |-> FALSE, result |-> tasks[i].res.result_text, data |-> None]
                            /\ FailedEntries # {} => /\ pc \in {"merge", "stage2", "synthesize", "done"}
                                                     /\ pc = "done" => /\ AllSelectedRan
                                                                       /\ trace_pos > Len(agent_trace)
                                                                       /\ result.agent_trace = agent_trace
                                                                       /\ result.final_text \in {"", "synthesized answer"}

\* Symptoms answered ok=false in stage 1; Triage ran in stage 2 and the run
\* returned its synthesized result
C22_Witness == /\ pc = "done" /\ FailedEntries # {} /\ AllSelectedRan
               /\ \E k \in FailedEntries : agent_trace[k].agent = "symptoms_agent"
               /\ HasEntry(result.agent_trace, "triage_agent") /\ result.final_text = "synthesized answer"

\* handle of agent a, called on its own, is over
AgentCalled(a) == pc = "agent_done" /\ tasks[1].agent = a

\* the capability returned text that is not JSON
NonJsonText(out) == out.kind = "text" /\ out.text.t # "json"

\* C23: when the capability returns non-JSON text to Triage, Triage raises no
\* error and returns a response whose structured data has level YELLOW and
\* action "Consult a healthcare professional".
C23_TriageFallbackOnNonJson == (AgentCalled("triage_agent") /\ NonJsonText(capability_output)) => /\ tasks[1].state = "returned"
                                                                                                /\ tasks[1].res.ok
                                                                                                /\ tasks[1].res.structured_data.level = JStr("YELLOW")
                                                                                                /\ tasks[1].res.structured_data.action = JStr("Consult a healthcare professional")

\* Triage was called, got garbage from the capability and answered
C23_Witness == AgentCalled("triage_agent") /\ capability_output = ProviderText(Garbage) /\ tasks[1].state = "returned" /\ tasks[1].res.structured_data.level = JStr("YELLOW")

\* Triage answered ok=true with structured data of the given level
TriageLevelIs(l) == tasks[1].res.ok /\ Get(tasks[1].res.structured_data, "level", JNull) = JStr(l)

\* the response came from the parse-failure fallback
TriageParseFailed == capability_output.kind # "text" \/ capability_output.text.t # "json"

\* C24 as stated: the score is 1.0 for RED, 0.6 for YELLOW and 0.2 for GREEN,
\* and the parse-failure fallback has level YELLOW with score 0.5.
C24_FallbackScoresHalf == AgentCalled("triage_agent") => /\ TriageLevelIs("RED") => tasks[1].res.score = 10
                                                         /\ (TriageLevelIs("YELLOW") /\ ~TriageParseFailed) => tasks[1].res.score = 6
                                                         /\ TriageLevelIs("GREEN") => tasks[1].res.score = 2
                                                         /\ TriageParseFailed => (TriageLevelIs("YELLOW") /\ tasks[1].res.score = 5)

\* C24 as amended: the score is 1.0 for RED, 0.6 for YELLOW and 0.2 for GREEN;
\* the parse-failure fallback has level YELLOW and therefore score 0.6; score
\* 0.5 goes to a response whose level is none of the three.
C24_ScoreFollowsLevel == AgentCalled("triage_agent") => /\ TriageLevelIs("RED") => tasks[1].res.score = 10
                                                        /\ TriageLevelIs("YELLOW") => tasks[1].res.score = 6
                                                        /\ TriageLevelIs("GREEN") => tasks[1].res.score = 2
                                                        /\ TriageParseFailed => (TriageLevelIs("YELLOW") /\ tasks[1].res.score = 6)
                                                        /\ (tasks[1].res.ok /\ tasks[1].res.score = 5) => ~(TriageLevelIs("RED") \/ TriageLevelIs("YELLOW") \/ TriageLevelIs("GREEN"))

\* the capability failed, Triage fell back to YELLOW and scored it 0.6
C24_Witness == AgentCalled("triage_agent") /\ capability_output = ProviderRaise /\ TriageLevelIs("YELLOW") /\ tasks[1].res.score = 6

\* C25: ImageAnalysis.handle on a request without image data returns ok=false
\* at once: with the text "No image provided.", without structured data,
\* without a capability call and without a logger call.
C25_NoImageNoCall == (AgentCalled("image_analysis_agent") /\ ~HasImage(image_base64)) => /\ tasks[1].state = "returned"
                                                                                        /\ ~tasks[1].res.ok
                                                                                        /\ tasks[1].res.result_text = "No image provided."
                                                                                        /\ tasks[1].res.structured_data = None
                                                                                        /\ capability_calls["image_analysis_agent"] = 0
                                                                                        /\ ~log_raised

\* the capability would have described a wound, but it was not asked
C25_Witness == AgentCalled("image_analysis_agent") /\ image_base64 = "none" /\ capability_output.kind = "text" /\ capability_output.text.t = "json" /\ ~tasks[1].res.ok /\ capability_calls["image_analysis_agent"] = 0

\* C27: a run that passes the safety gate makes exactly one synthesis
\* capability call, and makes it after every stage-2 agent has finished; a run
\* that stops at the safety gate makes none.
C27_OneSynthesisCall == /\ capability_calls["main_agent"] <= 1
                        /\ capability_calls["main_agent"] = 1 => (pc = "done" /\ ~SafetyRefused /\ StageOver(stage2_agents) /\ Stage2AllRan)
                        /\ pc = "done" => capability_calls["main_agent"] = (IF SafetyRefused THEN 0 ELSE 1)

\* a run with two stage-2 agents that returned after its one synthesis call
C27_Witness == pc = "done" /\ ~SafetyRefused /\ Len(stage2_agents) >= 2 /\ StageOver(stage2_agents) /\ capability_calls["main_agent"] = 1

\* C29: when Safety returns ok=false the run ends at once: no stage-1 or stage-2
\* agent is ever started, no stage is entered, and request.context keeps the
\* value it had when the request arrived.
C29_RefusalRunsNothing == SafetyRefused => /\ pc = "done"
                                           /\ \A a \in Agents \ {"safety_agent"} : evaluations[a] = 0 /\ capability_calls[a] = 0
                                           /\ tasks = <<>> /\ stage1_agents = <<>> /\ stage2_agents = <<>>
                                           /\ context = None
                                           /\ context_update = EmptyDict /\ rag_chunks = <<>>

\* a run whose selection held stage-1 and stage-2 agents besides Safety and
\* which Safety refused with a text of its own
C29_Witness == /\ SafetyRefused /\ pc = "done"
               /\ InList("symptoms_agent", selected_agent_names) /\ InList("first_aid_agent", selected_agent_names)
               /\ agent_trace[1].result # "" /\ evaluations["safety_agent"] = 1 /\ context = None

\* the merge step has run in this run
PastMerge == pc \in {"stage2", "synthesize"} \/ (pc = "done" /\ ~SafetyRefused)

\* positions of the trace entries of the stage-1 agents that returned a response
Stage1Entries == {i \in 1..Len(agent_trace) : agent_trace[i].agent \in Stage1Members}

\* C30 as stated: once the merge step has run, the context read under the name
\* of every stage-1 agent that returned a response is that response's
\* structured data (a missing key reading as None).
C30_ContextHoldsEveryResponse == PastMerge => \A i \in Stage1Entries : Get(context, agent_trace[i].agent, None) = agent_trace[i].data

\* C30 amended: once the merge step has run, the context holds under the name
\* of every stage-1 agent whose response carried non-empty structured data
\* exactly that data, holds no entry for a stage-1 agent whose response
\* carried None or an empty dict, and every stage-2 agent that started read
\* this context.
C30_ContextHoldsNonEmptyData == PastMerge => /\ \A i \in Stage1Entries : IF Truthy(agent_trace[i].data)
                                                                         THEN agent_trace[i].agent \in DOMAIN context /\ context[agent_trace[i].agent] = agent_trace[i].data
                                                                         ELSE agent_trace[i].agent \notin DOMAIN context
                                             /\ \A k \in 1..Len(stage2_agents) : Started(stage2_agents[k]) => context_seen[stage2_agents[k]] = context

\* Symptoms answered an empty object with ok=true and RagLookup answered
\* chunks: the context holds the RagLookup data and nothing for Symptoms, and
\* FirstAid started with it
C30_Witness == /\ PastMerge /\ Started("first_aid_agent")
               /\ \E i \in Stage1Entries : agent_trace[i].agent = "symptoms_agent" /\ agent_trace[i].ok /\ agent_trace[i].data = EmptyDict
               /\ \E i \in Stage1Entries : agent_trace[i].agent = "rag_lookup_agent" /\ Truthy(agent_trace[i].data) /\ context["rag_lookup_agent"] = agent_trace[i].data
               /\ "symptoms_agent" \notin DOMAIN context

\* handle called for one request with nothing else in flight: the trace, the
\* request context and the result it ends with
RunAlone(request, script) == LET selected == route(request.image_base64, script.classification, TRUE).selected
                                 gated == InList("safety_agent", selected)
                                 safety_response == HandleWith("safety_agent", request.image_base64, script.out["safety_agent"], TRUE, TRUE).resp
                                 trace0 == IF gated THEN <<SafetyEntry(safety_response)>> ELSE <<>>
                                 names == RemoveSafety(selected)
                                 Ran(list) == [i \in DOMAIN Tasks(list) |-> RunHandle(Tasks(list)[i], request, script)]
                                 c1 == Collect(Stage1Of(names), Ran(Stage1Of(names)), LogsReturn(Ran(Stage1Of(names))), 1, CollectInit(trace0))
                                 c2 == Collect(Stage2Of(names), Ran(Stage2Of(names)), LogsReturn(Ran(Stage2Of(names))), 1, CollectInit(c1.trace))
                             IN  IF gated /\ GateStops(safety_response)
                                 THEN [agent_trace |-> trace0, context |-> None, result |-> EarlyReturn(safety_response, trace0)]
                                 ELSE [agent_trace |-> c2.trace, context |-> MergeContext(None, c1.context_update, c1.rag_chunks), result |-> _synthesize_response(c2.trace, generate_text(script.synthesis), Urgency(c2.trace, "GREEN"))]

\* s is an initial segment of t
IsPrefix(s, t) == Len(s) <= Len(t) /\ \A i \in 1..Len(s) : s[i] = t[i]

\* run r is between its first and its last step
InFlight(r) == frames[r].pc \notin {"start", "done"}

\* run r has its request identifier: the one of its frame, attached to the
\* metadata of its request and drawn from uuid4
HasRequestId(r) == /\ frames[r].pc # "start"
                   /\ frames[r].request_id \in issued
                   /\ Truthy(requests[r].metadata)
                   /\ Get(requests[r].metadata, "request_id", None) = frames[r].request_id

\* nothing of run r has run yet: no selection, no task, no trace entry, no result
NothingRan(r) == frames[r].selected_agent_names = <<>> /\ frames[r].tasks = <<>> /\ frames[r].agent_trace = <<>> /\ frames[r].result = None

\* what holds of the request identifiers in every state
RequestIdState == /\ \A r \in Runs : IF frames[r].pc = "start" THEN NothingRan(r) /\ requests[r].metadata = None ELSE HasRequestId(r)
                  /\ \A r1, r2 \in Runs : (r1 # r2 /\ frames[r1].pc # "start" /\ frames[r2].pc # "start") => requests[r1].metadata["request_id"] # requests[r2].metadata["request_id"]

\* once attached, the identifier of a run is the same after every step
RequestIdKept == \A r \in Runs : frames[r].pc # "start" => (requests'[r].metadata = requests[r].metadata /\ frames'[r].request_id = frames[r].request_id)

\* C26: every run generates its requestId once and attaches it to
\* request.metadata before it routes and before any of its agents runs, no
\* later step of the run changes it, and two different runs never carry the
\* same requestId.
C26_RequestIdOnceAndUnique == []RequestIdState /\ [][RequestIdKept]_vars

\* both runs carry their identifiers, one has finished with a synthesized
\* result and the other is in its second stage
C26_Witness == /\ HasRequestId(1) /\ HasRequestId(2) /\ frames[1].request_id # frames[2].request_id
               /\ frames[1].pc = "done" /\ Len(frames[1].agent_trace) >= 3
               /\ frames[2].pc = "stage2"

\* C28: of two runs in flight on the shared orchestrator and agents, each on
\* its own request, each has at every moment a trace that is an initial
\* segment of the trace it yields when run alone, a request context that is
\* untouched or the one it yields alone, and ends with the trace, the context
\* and the result it yields when run alone.
C28_RunsDoNotInterfere == \A r \in Runs : LET alone == RunAlone(NewRequest(requests[r].image_base64), provider[r]) IN
                                          /\ IsPrefix(frames[r].agent_trace, alone.agent_trace)
                                          /\ requests[r].context \in {None, alone.context}
                                          /\ frames[r].pc \in {"stage2", "synthesize"} => requests[r].context = alone.context
                                          /\ frames[r].pc = "done" => /\ frames[r].agent_trace = alone.agent_trace
                                                                      /\ requests[r].context = alone.context
                                                                      /\ frames[r].result = alone.result

\* the two runs are in flight together with different provider answers, run 1
\* in its second stage with a merged context and run 2 in its first stage with
\* a task done
C28_Witness == /\ InFlight(1) /\ InFlight(2) /\ provider[1] # provider[2]
               /\ frames[1].pc = "stage2" /\ Truthy(requests[1].context) /\ Len(frames[1].agent_trace) >= 2
               /\ frames[2].pc = "stage1" /\ \E i \in DOMAIN frames[2].tasks : frames[2].tasks[i].state = "returned"
               /\ frames[1].agent_trace # <<>> /\ frames[2].agent_trace # <<>>

\* both runs ended, after provider answers that differ, each with the result
\* of its own answers
C28_BothDone == /\ frames[1].pc = "done" /\ frames[2].pc = "done" /\ provider[1].out # provider[2].out
                /\ frames[1].result # frames[2].result /\ Len(frames[1].result.agent_trace) >= 3 /\ Len(frames[2].result.agent_trace) >= 3

\* the names of the stage-2 agents
Stage2Members == Agents \ (Stage1Members \cup {"safety_agent"})

\* what a step may do to the context and the metadata of the request of run r
C31_Step(r) == /\ requests'[r].context # requests[r].context => (frames[r].pc = "stage1" /\ Gathered(frames[r]) /\ frames'[r].pc = "stage2")
               /\ requests'[r].metadata # requests[r].metadata => (frames[r].pc = "start" /\ frames'[r].pc = "routing")
               /\ (frames'[r].tasks # frames[r].tasks /\ frames'[r].pc = frames[r].pc) => requests'[r] = requests[r]

\* C31: no agent's handle changes request.context or request.metadata; the
\* context of a run changes only in the merge step that ends stage 1 and
\* starts stage 2, the metadata only when handle begins, and the context never
\* holds an entry under the name of a stage-2 agent.
C31_ContextOnlyMerged == [](\A r \in Runs : Truthy(requests[r].context) => DOMAIN requests[r].context \cap Stage2Members = {}) /\ [][\A r \in Runs : C31_Step(r)]_vars

\* a finished run whose context was merged and whose Triage and FirstAid
\* returned structured data that is in the trace and not in the context
C31_Witness == /\ frames[1].pc = "done" /\ Truthy(requests[1].context)
               /\ \E i, k \in DOMAIN frames[1].agent_trace : /\ frames[1].agent_trace[i].agent = "triage_agent" /\ Truthy(frames[1].agent_trace[i].data)
                                                             /\ frames[1].agent_trace[k].agent = "first_aid_agent" /\ Truthy(frames[1].agent_trace[k].data)
               /\ DOMAIN requests[1].context \cap Stage2Members = {}

\* C32: the citations list of every result handle returns is empty, also when
\* RagLookup returned citations: a RagLookup response carries one citation per
\* chunk it found, and none of them reaches the result.
C32_CitationsAlwaysEmpty == /\ pc = "done" => result.citations = <<>>
                            /\ \A i \in DOMAIN tasks : (tasks[i].agent = "rag_lookup_agent" /\ tasks[i].state = "returned" /\ tasks[i].res.ok) => tasks[i].res.citations = [k \in 1..Len(tasks[i].res.structured_data.chunks) |-> Citation(tasks[i].res.structured_data.chunks[k])]

\* a synthesized result with no citations although RagLookup found two chunks
C32_Witness == /\ pc = "done" /\ ~SafetyRefused /\ result.citations = <<>>
               /\ \E i \in RagEntries : Len(result.agent_trace[i].data.chunks) = 2

\* C33: every entry of the trace handle returns, the Safety entry included,
\* carries the four fields agent, ok, result and data.
C33_EveryEntryHasFourFields == pc = "done" => \A i \in DOMAIN result.agent_trace : DOMAIN result.agent_trace[i] = {"agent", "ok", "result", "data"}

\* the names the tasks of a frame were created for
TaskNames(frame) == [i \in DOMAIN frame.tasks |-> frame.tasks[i].agent]

\* the frame's run executes the agents of its selection and no others, each
\* once: the tasks of a stage are those of the stage's list, the two lists are
\* the selection partitioned, and the trace holds no entry twice
OnlySelectedRan(frame) == /\ frame.pc = "stage1" => TaskNames(frame) = frame.stage1_agents
                          /\ frame.pc \in {"stage2", "synthesize"} => TaskNames(frame) = frame.stage2_agents
                          /\ Len(frame.stage1_agents) + Len(frame.stage2_agents) <= Len(frame.selected_agent_names)
                          /\ \A i \in DOMAIN frame.tasks : InList(frame.tasks[i].agent, frame.selected_agent_names)
                          /\ \A i, k \in DOMAIN frame.tasks : frame.tasks[i].agent = frame.tasks[k].agent => i = k
                          /\ \A i, k \in DOMAIN frame.agent_trace : frame.agent_trace[i].agent = frame.agent_trace[k].agent => i = k

\* handle has returned a result and none of its agent tasks is unfinished
ReturnedClean(frame) == frame.pc = "done" => (frame.result # None /\ Gathered(frame))

\* C34: when every capability and retrieval call returns or fails, every run
\* reaches done with a result; a run never executes an agent twice or an agent
\* the router did not select, and no agent task of it is left unfinished when
\* handle has returned.
C34_RunTerminates == <>(\A r \in Runs : frames[r].pc = "done" /\ frames[r].result # None) /\ [](\A r \in Runs : OnlySelectedRan(frames[r]) /\ ReturnedClean(frames[r]))

\* both runs returned, one after four agents besides Safety of which one had
\* its capability call fail, the other stopped by Safety
C34_Witness == /\ frames[1].pc = "done" /\ frames[2].pc = "done"
               /\ Len(frames[1].stage1_agents) + Len(frames[1].stage2_agents) >= 4 /\ Gathered(frames[1])
               /\ provider[1].out["symptoms_agent"] = ProviderRaise /\ Len(frames[1].result.agent_trace) >= 5
               /\ Len(frames[2].result.agent_trace) = 1

\* agent a ran in stage 1 of this run and its response is in the trace
FinishedInStage1(a) == InList(a, stage1_agents) /\ evaluations[a] = 1 /\ HasEntry(agent_trace, a)

\* C35: the selection holds Triage only together with Symptoms, whatever the
\* classification names, and when Triage has started, stage 1 is over and
\* Symptoms ran in it and has its entry in the trace.
C35_TriageAfterSymptoms == /\ InList("triage_agent", selected_agent_names) => InList("symptoms_agent", selected_agent_names)
                           /\ Started("triage_agent") => (pc \in {"stage2", "synthesize", "done"} /\ FinishedInStage1("symptoms_agent"))

\* Triage is running, once in the selection, and Symptoms has ended with
\* ok=false
C35_Witness == /\ pc = "stage2" /\ \E i \in DOMAIN tasks : tasks[i].agent = "triage_agent" /\ tasks[i].state = "running"
               /\ \E k \in DOMAIN agent_trace : agent_trace[k].agent = "symptoms_agent" /\ ~agent_trace[k].ok
               /\ Count("triage_agent", selected_agent_names) = 1

\* C36: when FirstAid has started, RagLookup was selected, ran in stage 1 and
\* has its entry in the trace, stage 1 is over, and the chunks RagLookup found
\* are under rag_chunks in the context FirstAid read.
C36_FirstAidAfterRag == Started("first_aid_agent") => /\ pc \in {"stage2", "synthesize", "done"}
                                                      /\ InList("rag_lookup_agent", selected_agent_names)
                                                      /\ FinishedInStage1("rag_lookup_agent")
                                                      /\ \A i \in RagEntries : /\ "rag_chunks" \in DOMAIN context_seen["first_aid_agent"]
                                                                               /\ context_seen["first_aid_agent"]["rag_chunks"] = agent_trace[i].data.chunks

\* FirstAid is running and read the two chunks RagLookup found, the
\* classification having named FirstAid alone
C36_Witness == /\ pc = "stage2" /\ \E i \in DOMAIN tasks : tasks[i].agent = "first_aid_agent" /\ tasks[i].state = "running"
               /\ selected_agent_names = <<"first_aid_agent", "rag_lookup_agent">>
               /\ \E i \in RagEntries : Len(agent_trace[i].data.chunks) = 2 /\ context_seen["first_aid_agent"]["rag_chunks"] = agent_trace[i].data.chunks

\* C37: the selection never holds a name twice, whatever the classification
\* repeats; the returned trace has at most one entry per agent, and each entry
\* is the Safety entry or that of a selected agent.
C37_NoDuplicates == /\ \A a \in Agents : Count(a, selected_agent_names) <= 1
                    /\ pc = "safety_running" => InList("safety_agent", selected_agent_names)
                    /\ pc = "done" => /\ \A i, k \in DOMAIN result.agent_trace : result.agent_trace[i].agent = result.agent_trace[k].agent => i = k
                                      /\ \A i \in DOMAIN result.agent_trace : result.agent_trace[i].agent = "safety_agent" \/ InList(result.agent_trace[i].agent, selected_agent_names)

\* route returned after a classification that named RagLookup twice
C37_Witness == /\ RouteReturned /\ classification = Classified(<<JStr("rag_lookup_agent"), JStr("rag_lookup_agent")>>)
               /\ Count("rag_lookup_agent", selected_agent_names) = 1

\* a returned trace with one entry for Safety and one for each of four
\* selected agents
C37_TraceWitness == /\ pc = "done" /\ route_path = "classified" /\ Len(selected_agent_names) = 4 /\ Len(result.agent_trace) = 5
                    /\ \A i \in 1..4 : result.agent_trace[i + 1].agent = (stage1_agents \o stage2_agents)[i]

\* positions of the Triage entries of the returned trace
TriageEntries == {i \in DOMAIN result.agent_trace : result.agent_trace[i].agent = "triage_agent"}

\* the entry carries no structured data, or a level that is neither RED nor YELLOW
NoEscalation(item) == ~Truthy(item.data) \/ Get(item.data, "level", JStr("GREEN")) \notin {JStr("RED"), JStr("YELLOW")}

\* C38: a synthesized result whose trace has no Triage entry, or a Triage
\* entry without structured data or with a level that is neither RED nor
\* YELLOW, has urgency GREEN; the urgency of every returned result is RED,
\* YELLOW or GREEN.
C38_UrgencyDefaultsGreen == pc = "done" => /\ result.urgency_level \in {"RED", "YELLOW", "GREEN"}
                                           /\ (~SafetyRefused /\ \A i \in TriageEntries : NoEscalation(result.agent_trace[i])) => result.urgency_level = "GREEN"

\* Triage answered a level outside the three, and the result is GREEN
C38_Witness == /\ pc = "done" /\ result.urgency_level = "GREEN"
               /\ \E i \in TriageEntries : result.agent_trace[i].ok /\ Truthy(result.agent_trace[i].data) /\ Get(result.agent_trace[i].data, "level", JNull) = JStr("PURPLE")

\* Triage ended with ok=false and no data, and the result is GREEN
C38_FailedTriage == /\ pc = "done" /\ result.urgency_level = "GREEN"
                    /\ \E i \in TriageEntries : ~result.agent_trace[i].ok /\ result.agent_trace[i].data = None

\* the classification call produced no parseable JSON: unparseable text, or the
\* empty text generate_text returns for a provider error or a blank response
Unparseable == RouteReturned /\ JSONDecodeError(generate_text(classification))

\* C39: when the classification output is not parseable JSON, the empty text
\* of a provider error included, route returns the scaffold followed by
\* RagLookup: Safety, then ImageAnalysis when the request carries image data,
\* then RagLookup, and no Triage.
C39_UnparseableGivesScaffold == Unparseable => /\ route_path = "decode_error"
                                               /\ selected_agent_names = (IF HasImage(image_base64) THEN <<"safety_agent", "image_analysis_agent", "rag_lookup_agent">> ELSE <<"safety_agent", "rag_lookup_agent">>)
                                               /\ ~InList("triage_agent", selected_agent_names)

\* the provider raised on the classification of a request with image data
C39_Witness == Unparseable /\ classification = ProviderRaise /\ image_base64 = "b64" /\ Len(selected_agent_names) = 3 /\ selected_agent_names[2] = "image_analysis_agent"

\* C40: ImageAnalysis is in the selection only when the request carries image
\* data, also when the classification names it; so when it runs within a run
\* the request has image data, and no trace entry of it is the answer of its
\* missing-image branch.
C40_ImageAnalysisNeedsImage == /\ InList("image_analysis_agent", selected_agent_names) => image_base64 # "none"
                               /\ Started("image_analysis_agent") => image_base64 # "none"
                               /\ \A i \in DOMAIN agent_trace : agent_trace[i].agent = "image_analysis_agent" => agent_trace[i].result # "No image provided."

\* ImageAnalysis ran on image data that is not valid base64 and ended with
\* ok=false, on its decoding branch
C40_Witness == /\ pc = "done" /\ image_base64 = "bad_b64" /\ evaluations["image_analysis_agent"] = 1
               /\ \E i \in DOMAIN result.agent_trace : result.agent_trace[i].agent = "image_analysis_agent" /\ ~result.agent_trace[i].ok

\* the classification named ImageAnalysis for a request without image data,
\* and route left it out
C40_NamedWithoutImage == /\ RouteReturned /\ image_base64 = "none" /\ classification = Classified(<<JStr("image_analysis_agent")>>)
                         /\ route_path = "classified" /\ selected_agent_names = <<"safety_agent">>

====
